---------------------------- MODULE Spec2Model ----------------------------
(***************************************************************************)
(* Model of libvirt-instance's domain/volume construction engine:          *)
(*   - libvirt_instance.util (index_to_drive_name,                         *)
(*     human_size_units_to_bytes)                                          *)
(*   - libvirt_instance.domain.DomainDefinition (__init__, emulator       *)
(*     resolution, add_disk, SCSI address allocation, interfaces, define)  *)
(*   - libvirt_instance.domain.Volume (__init__ against the storage pool   *)
(*     of tests/libvirt_mock.py, upload)                                   *)
(*   - libvirt_instance.cli.cmd_create (the --disk loops)                  *)
(*                                                                         *)
(* The specifications of the module:                                       *)
(*   Spec            one DomainDefinition after construction, then any     *)
(*                   sequence of add_disk / define calls                   *)
(*   AlmostFullSpec  add_disk on templates one disk short of a bus limit   *)
(*   DiskKindSpec    add_disk of volumes of every pool type on every bus   *)
(*   ControllerSpec  add_disk on templates with virtio-scsi controllers    *)
(*   FailureSpec     add_disk calls that fail in every way they can        *)
(*   BuildSpec       add_disk / add_*_interface statement by statement     *)
(*   ConstructSpec   the constructor on templates, capabilities and        *)
(*                   arguments, then add_disk / add_*_interface calls      *)
(*   VolumeSpec      concurrent callers each constructing one Volume       *)
(*   UploadSpec      one Volume.upload call, chunk by chunk                *)
(*   DriveNameSpec   index_to_drive_name on every index up to MaxIndex     *)
(*   SizeSpec        human_size_units_to_bytes on size texts               *)
(*   CreateSpec      cmd_create on lists of --disk specs                   *)
(*                                                                         *)
(* Strings the code computes with (device names, decimal attributes) are   *)
(* sequences of one-character strings; an optional value (Python None or   *)
(* a value) is a sequence of length 0 or 1.                                *)
(***************************************************************************)
EXTENDS Integers, Sequences, FiniteSets, TLC

VARIABLES
    devices,        \* children of the <devices> element, in document order
    basexml,        \* the <devices> children of the base template (history)
    domains,        \* virConnect._domains: the document stored for the domain
    defineXMLCalls, \* number of defineXML calls the connection has served
    last,           \* the latest call on the builder and its outcome
    ncalls,         \* number of add_* calls made so far
    ctor,           \* the constructor call: its arguments and its outcome
    domain_el       \* self._domain_el: the root and its children, if built

VARIABLES
    pools,          \* pool name -> (volume name -> volume descriptor)
    pc,             \* per caller: position inside Volume.__init__
    args,           \* per caller: constructor arguments
    loc,            \* per caller: local variables of Volume.__init__
    result,         \* per caller: outcome of the constructor
    hvcalls         \* per caller: createXML / createXMLFrom / resize calls issued

VARIABLES
    util,           \* a call of a function of util.py: argument and outcome
    upload,         \* a Volume.upload call: the source, the stream, the position
    create,         \* cmd_create: the --disk specs and the calls made for them
    building        \* the add_*_interface call in progress on the builder

domainVars ==
    <<devices, basexml, domains, defineXMLCalls, last, ncalls, ctor, domain_el>>
volumeVars == <<pools, pc, args, loc, result, hvcalls>>
auxVars == <<util, upload, create, building>>
vars == <<devices, basexml, domains, defineXMLCalls, last, ncalls,
          ctor, domain_el, pools, pc, args, loc, result, hvcalls,
          util, upload, create, building>>

-----------------------------------------------------------------------------
(* Optional values *)

None == <<>>

Some(x) == <<x>>

\* no util call, no upload, no cmd_create run, no interface being built
UtilIdle == util = [fn |-> "idle"]

UploadIdle == upload = [pc |-> "idle"]

CreateIdle == create = [pc |-> "idle"]

BuildingIdle == building = None

AuxIdle == UtilIdle /\ UploadIdle /\ CreateIdle /\ BuildingIdle

-----------------------------------------------------------------------------
(* util.py *)

ascii_lowercase ==
    <<"a", "b", "c", "d", "e", "f", "g", "h", "i", "j", "k", "l", "m",
      "n", "o", "p", "q", "r", "s", "t", "u", "v", "w", "x", "y", "z">>

\* the letters joined in the order the loop produced them
Reversed_AsCollected(s) == s

Reversed(s) == [i \in 1..Len(s) |-> s[Len(s) + 1 - i]]

RECURSIVE DriveNameLoop(_, _)
DriveNameLoop(d, coll) ==
    IF d = 0 THEN coll
    ELSE LET d1 == d - 1
             r  == d1 % 26
         IN  DriveNameLoop(d1 \div 26, Append(coll, ascii_lowercase[r + 1]))

\* the loop without its "d -= 1": plain base 26 instead of bijective base 26
RECURSIVE DriveNameLoop_Base26(_, _)
DriveNameLoop_Base26(d, coll) ==
    IF d = 0 THEN coll
    ELSE DriveNameLoop_Base26(d \div 26, Append(coll, ascii_lowercase[(d % 26) + 1]))

index_to_drive_name_Base26(idx) == Reversed(DriveNameLoop_Base26(idx + 1, <<>>))

index_to_drive_name(idx) == Reversed(DriveNameLoop(idx + 1, <<>>))

-----------------------------------------------------------------------------
(* str() and int() on non-negative integers, as used for XML attributes    *)
(* and element text                                                        *)

Digits == <<"0", "1", "2", "3", "4", "5", "6", "7", "8", "9">>

RECURSIVE StrLoop(_, _)
StrLoop(n, acc) ==
    IF n = 0 THEN acc
    ELSE StrLoop(n \div 10, <<Digits[(n % 10) + 1]>> \o acc)

str(n) == IF n = 0 THEN <<"0">> ELSE StrLoop(n, <<>>)

DigitVal(c) == CHOOSE v \in 0..9 : Digits[v + 1] = c

RECURSIVE IntLoop(_, _, _)
IntLoop(s, i, acc) ==
    IF i > Len(s) THEN acc
    ELSE IntLoop(s, i + 1, acc * 10 + DigitVal(s[i]))

int(s) == IntLoop(s, 1, 0)

-----------------------------------------------------------------------------
(* util.human_size_units_to_bytes.  Python integers are unbounded: a value  *)
(* is kept as its decimal digits, most significant first.                  *)

\* int(text) of a string of digits, as digits: leading zeros are dropped
RECURSIVE StripZeros(_)
StripZeros(ds) ==
    IF Len(ds) > 1 /\ ds[1] = "0" THEN StripZeros(Tail(ds)) ELSE ds

\* digits * m for a small factor m, right to left with a carry
RECURSIVE MulLoop(_, _, _, _, _)
MulLoop(ds, i, m, carry, acc) ==
    IF i = 0 THEN (IF carry = 0 THEN acc ELSE str(carry) \o acc)
    ELSE LET v == DigitVal(ds[i]) * m + carry
         IN  MulLoop(ds, i - 1, m, v \div 10, <<Digits[(v % 10) + 1]>> \o acc)

MulSmall(ds, m) == StripZeros(MulLoop(ds, Len(ds), m, 0, <<>>))

\* digits * base ** exp
RECURSIVE TimesPower(_, _, _)
TimesPower(ds, base, exp) ==
    IF exp = 0 THEN ds
    ELSE LET product == MulSmall(ds, base)
         IN  IF product = <<"0">> THEN product
             ELSE TimesPower(product, base, exp - 1)

\* the keys of SIZE_UNITS other than None, and base ** exp of each value
UnitNames ==
    { <<"B">>, <<"K", "B">>, <<"M", "B">>, <<"G", "B">>, <<"T", "B">>,
      <<"P", "B">>, <<"K", "i", "B">>, <<"M", "i", "B">>, <<"G", "i", "B">>,
      <<"T", "i", "B">>, <<"P", "i", "B">> }

SIZE_UNITS(unit) ==
    CASE unit = None                   -> [base |-> 10, exp |-> 0]
      [] unit = Some(<<"B">>)            -> [base |-> 10, exp |-> 0]
      [] unit = Some(<<"K", "B">>)       -> [base |-> 10, exp |-> 3]
      [] unit = Some(<<"M", "B">>)       -> [base |-> 10, exp |-> 6]
      [] unit = Some(<<"G", "B">>)       -> [base |-> 10, exp |-> 9]
      [] unit = Some(<<"T", "B">>)       -> [base |-> 10, exp |-> 12]
      [] unit = Some(<<"P", "B">>)       -> [base |-> 10, exp |-> 15]
      [] unit = Some(<<"K", "i", "B">>)  -> [base |-> 2, exp |-> 10]
      [] unit = Some(<<"M", "i", "B">>)  -> [base |-> 2, exp |-> 20]
      [] unit = Some(<<"G", "i", "B">>)  -> [base |-> 2, exp |-> 30]
      [] unit = Some(<<"T", "i", "B">>)  -> [base |-> 2, exp |-> 40]
      [] unit = Some(<<"P", "i", "B">>)  -> [base |-> 2, exp |-> 50]

InSizeUnits(unit) == unit = None \/ (unit # None /\ unit[1] \in UnitNames)

\* the character classes of the pattern: \d, \s and [iA-Z]
IsDigitChar(c) == \E v \in 1..10 : Digits[v] = c

Whitespace == {" ", "\t", "\n", "\r", "\f"}

UnitChars ==
    {"i", "A", "B", "C", "D", "E", "F", "G", "H", "I", "J", "K", "L", "M",
     "N", "O", "P", "Q", "R", "S", "T", "U", "V", "W", "X", "Y", "Z"}

\* "$" without re.MULTILINE: at the end of the text, or just before a
\* newline that is the last character of the text
AtDollar(text, k) ==
    \/ k = Len(text)
    \/ k = Len(text) - 1 /\ text[Len(text)] = "\n"

\* the ways ^(?P<number>\d+)\s*(?P<unit>[iA-Z]{1,3})?$ matches the text:
\* number is text[1..i], whitespace text[i+1..j], unit text[j+1..k]
SizeMatches(text) ==
    { m \in [i : 1..Len(text), j : 1..Len(text), k : 1..Len(text)] :
        /\ m.i <= m.j /\ m.j <= m.k /\ m.k - m.j <= 3
        /\ \A x \in 1..m.i : IsDigitChar(text[x])
        /\ \A x \in (m.i + 1)..m.j : text[x] \in Whitespace
        /\ \A x \in (m.j + 1)..m.k : text[x] \in UnitChars
        /\ AtDollar(text, m.k) }

\* the groups of re.match: the greedy match is the one with the longest
\* number, then the longest whitespace, then the longest unit
SizeMatch(text) ==
    CHOOSE m \in SizeMatches(text) :
        \A o \in SizeMatches(text) :
            \/ o.i < m.i
            \/ o.i = m.i /\ o.j < m.j
            \/ o.i = m.i /\ o.j = m.j /\ o.k <= m.k

human_size_units_to_bytes(size) ==
    IF SizeMatches(size) = {}
    THEN [error |-> "Invalid value", value |-> None]
    ELSE LET m      == SizeMatch(size)
             number == StripZeros(SubSeq(size, 1, m.i))
             unit   == IF m.k = m.j THEN None
                       ELSE Some(SubSeq(size, m.j + 1, m.k))
         IN  IF InSizeUnits(unit)
             THEN [error |-> "none",
                   value |-> Some(TimesPower(number, SIZE_UNITS(unit).base,
                                             SIZE_UNITS(unit).exp))]
             ELSE [error |-> "Unit is not supported", value |-> None]

-----------------------------------------------------------------------------
(* Small helpers over sequences and sets *)

Min(S) == CHOOSE x \in S : \A y \in S : x <= y

StartsWith(s, p) == Len(s) >= Len(p) /\ SubSeq(s, 1, Len(p)) = p

-----------------------------------------------------------------------------
(* domain.py: constants *)

DISK_BUS_VIRTIO == "virtio"

DISK_BUS_SCSI == "scsi"

VirtioMaxNr == 32

ScsiMaxNr == 1024

NrTargets == 256

NrUnits == 16384

MaxControllers == 32

DISK_BUS_PROPERTIES ==
    [virtio |-> [dev_prefix |-> <<"v", "d">>, max_nr |-> VirtioMaxNr],
     scsi   |-> [dev_prefix |-> <<"s", "d">>, max_nr |-> ScsiMaxNr]]

-----------------------------------------------------------------------------
(* The <devices> children.  Entries are records told apart by their tag:   *)
(*   disk        type, device, source, target (optional [dev, bus]),       *)
(*               driver, boot (optional), address (optional)               *)
(*   controller  type, model, index (optional decimal string)              *)
(*   emulator    text                                                      *)

IsDisk(e) == e.tag = "disk"

\* ./disk/target[@bus='<bus>']/..
IsDiskOnBus(e, bus) == IsDisk(e) /\ e.target # None /\ e.target[1].bus = bus

\* ./controller[@type='scsi'][@model='virtio-scsi']
IsScsiController(e) ==
    e.tag = "controller" /\ e.type = "scsi" /\ e.model = "virtio-scsi"

\* ./address[@type='drive']
DriveAddress(e) ==
    IF e.address # None /\ e.address[1].type = "drive" THEN e.address ELSE None

-----------------------------------------------------------------------------
(* DomainDefinition._used_scsi_addresses *)

AddressComplete(a) ==
    a.controller # None /\ a.bus # None /\ a.target # None /\ a.unit # None

AddressTuple(a) ==
    <<int(a.controller[1]), int(a.bus[1]), int(a.target[1]), int(a.unit[1])>>

\* [error, used]: error is set when some SCSI disk lacks a complete drive
\* address (RuntimeError); used is the occupancy index as a set of
\* (controller, bus, target, unit) tuples.
used_scsi_addresses(devs) ==
    LET scsi == {i \in DOMAIN devs : IsDiskOnBus(devs[i], DISK_BUS_SCSI)}
        bad  == {i \in scsi :
                    \/ DriveAddress(devs[i]) = None
                    \/ ~AddressComplete(DriveAddress(devs[i])[1])}
    IN  IF bad # {}
        THEN [error |-> TRUE, used |-> {}]
        ELSE [error |-> FALSE,
              used  |-> {AddressTuple(DriveAddress(devs[i])[1]) : i \in scsi}]

-----------------------------------------------------------------------------
(* DomainDefinition._allocate_scsi_address *)

\* the position a controller would have if every controller were the first
ControllerIndex_AlwaysZero(e) == 0

\* controller_el.get("index") or "0"
ControllerIndex(e) ==
    int(IF e.index = None \/ e.index[1] = <<>> THEN <<"0">> ELSE e.index[1])

\* A for loop over range(n) left by break yields the first i for which the
\* break condition holds, or runs to its end (None) when there is none.

\* the unit loop never looking at the occupancy index
FirstFreeUnit_AlwaysZero(used, c, bus, t) == Some(0)

\* the unit loop: the first unit in range(16384) not used at (c, bus, t)
FirstFreeUnit(used, c, bus, t) ==
    LET Free(u) == <<c, bus, t, u>> \notin used
    IN  IF \E u \in 0..(NrUnits - 1) : Free(u)
        THEN Some(CHOOSE u \in 0..(NrUnits - 1) :
                      Free(u) /\ \A v \in 0..(u - 1) : ~Free(v))
        ELSE None

\* the target loop: the first target in range(256) whose unit loop breaks
FirstFreeSlot(used, c, bus) ==
    LET HasFree(t) == FirstFreeUnit(used, c, bus, t) # None
    IN  IF \E t \in 0..(NrTargets - 1) : HasFree(t)
        THEN LET target == CHOOSE t \in 0..(NrTargets - 1) :
                               HasFree(t) /\ \A s \in 0..(t - 1) : ~HasFree(s)
             IN  Some(<<target, FirstFreeUnit(used, c, bus, target)[1]>>)
        ELSE None

\* a controller entry appended without its model attribute set to virtio-scsi
NewController_Lsi(index) ==
    [tag |-> "controller", type |-> "scsi", model |-> "lsilogic",
     index |-> Some(str(index))]

\* the entry of the ET.SubElement(self._devices_el, "controller") branch
NewController(index) ==
    [tag |-> "controller", type |-> "scsi", model |-> "virtio-scsi",
     index |-> Some(str(index))]

\* [error, devices, address]: devices is the document's <devices> children
\* after the call (a controller entry may have been appended).
allocate_scsi_address(devs) ==
    LET ua   == used_scsi_addresses(devs)
        ctrl == {i \in DOMAIN devs : IsScsiController(devs[i])}
        bus  == 0
        slot == [i \in ctrl |-> FirstFreeSlot(ua.used, ControllerIndex(devs[i]), bus)]
        room == {i \in ctrl : slot[i] # None}
    IN  IF ua.error
        THEN [error |-> "RuntimeError: SCSI disk is missing an address",
              devices |-> devs, address |-> None]
        ELSE IF room # {}
        THEN LET first      == Min(room)
                 controller == ControllerIndex(devs[first])
             IN  [error |-> "none", devices |-> devs,
                  address |-> Some(<<controller, bus, slot[first][1][1],
                                     slot[first][1][2]>>)]
        ELSE IF Cardinality(ctrl) < MaxControllers
        THEN LET controller == Cardinality(ctrl)
             IN  [error |-> "none",
                  devices |-> Append(devs, NewController(controller)),
                  address |-> Some(<<controller, bus, 0, 0>>)]
        ELSE [error |-> "RuntimeError: All available SCSI controllers are full",
              devices |-> devs, address |-> None]

-----------------------------------------------------------------------------
(* DomainDefinition.add_disk *)

\* the <source> of a disk backed by an rbd pool: hosts that have a name,
\* auth when both the username and the secret uuid are non-empty
RbdSource(volume) ==
    LET named == SelectSeq(volume.pool_hosts, LAMBDA h : h.name # None)
        a     == volume.pool_auth
        authOk == /\ a # None
                  /\ a[1].username # None /\ a[1].username[1] # ""
                  /\ a[1].secret_uuid # None /\ a[1].secret_uuid[1] # ""
    IN  [protocol |-> "rbd",
         name     |-> volume.path[1],
         hosts    |-> named,
         auth     |-> IF authOk
                      THEN Some([username |-> a[1].username[1],
                                 secret   |-> [type |-> "ceph",
                                               uuid |-> a[1].secret_uuid[1]]])
                      ELSE None]

\* the scan collecting nothing
ExistingTargetDevices_NoScan(devs, bus, dev_prefix) == {}

\* existing_target_devices: the dev names on the bus that start with the prefix
ExistingTargetDevices(devs, bus, dev_prefix) ==
    {devs[i].target[1].dev[1] :
        i \in {j \in DOMAIN devs :
                  /\ IsDiskOnBus(devs[j], bus)
                  /\ devs[j].target[1].dev # None
                  /\ StartsWith(devs[j].target[1].dev[1], dev_prefix)}}

\* the dev_nr loop falling through to the first name when all are in use
AllocateDev_WrapsAround(devs, bus) ==
    LET dev_prefix == DISK_BUS_PROPERTIES[bus].dev_prefix
        max_nr     == DISK_BUS_PROPERTIES[bus].max_nr
        existing   == {devs[i].target[1].dev[1] :
                          i \in {j \in DOMAIN devs :
                                    /\ IsDiskOnBus(devs[j], bus)
                                    /\ devs[j].target[1].dev # None
                                    /\ StartsWith(devs[j].target[1].dev[1], dev_prefix)}}
        Dev(n)     == dev_prefix \o index_to_drive_name(n)
        Free(n)    == Dev(n) \notin existing
    IN  IF \E n \in 0..(max_nr - 1) : Free(n)
        THEN Some(Dev(CHOOSE n \in 0..(max_nr - 1) :
                          Free(n) /\ \A m \in 0..(n - 1) : ~Free(m)))
        ELSE Some(Dev(0))

\* the dev_nr loop: the first name in range(max_nr) not in use, or None
\* when the loop runs to its end
AllocateDev(devs, bus) ==
    LET dev_prefix == DISK_BUS_PROPERTIES[bus].dev_prefix
        max_nr     == DISK_BUS_PROPERTIES[bus].max_nr
        existing   == ExistingTargetDevices(devs, bus, dev_prefix)
        Dev(n)     == dev_prefix \o index_to_drive_name(n)
        Free(n)    == Dev(n) \notin existing
    IN  IF \E n \in 0..(max_nr - 1) : Free(n)
        THEN Some(Dev(CHOOSE n \in 0..(max_nr - 1) :
                          Free(n) /\ \A m \in 0..(n - 1) : ~Free(m)))
        ELSE None

\* every disk emitted as a volume-typed entry naming pool and volume
DiskElement_AlwaysVolume(volume, bus, dev, cache, discard, boot_order, address) ==
    [tag     |-> "disk",
     type    |-> "volume",
     device  |-> "disk",
     source  |-> [pool |-> volume.pool_name, volume |-> volume.name],
     target  |-> Some([dev |-> Some(dev), bus |-> bus]),
     driver  |-> [name |-> "qemu", type |-> "raw", cache |-> cache,
                  discard |-> discard],
     boot    |-> IF boot_order = None THEN None ELSE Some(str(boot_order[1])),
     address |-> IF address = None THEN None
                 ELSE Some([type       |-> "drive",
                            controller |-> Some(str(address[1][1])),
                            bus        |-> Some(str(address[1][2])),
                            target     |-> Some(str(address[1][3])),
                            unit       |-> Some(str(address[1][4]))])]

\* lines 425-542: the disk element add_disk builds
DiskElement(volume, bus, dev, cache, discard, boot_order, address) ==
    [tag     |-> "disk",
     type    |-> IF volume.pool_type = "rbd" THEN "network" ELSE "volume",
     device  |-> "disk",
     source  |-> IF volume.pool_type = "rbd"
                 THEN RbdSource(volume)
                 ELSE [pool |-> volume.pool_name, volume |-> volume.name],
     target  |-> Some([dev |-> Some(dev), bus |-> bus]),
     driver  |-> [name |-> "qemu", type |-> "raw", cache |-> cache,
                  discard |-> discard],
     boot    |-> IF boot_order = None THEN None ELSE Some(str(boot_order[1])),
     address |-> IF address = None THEN None
                 ELSE Some([type       |-> "drive",
                            controller |-> Some(str(address[1][1])),
                            bus        |-> Some(str(address[1][2])),
                            target     |-> Some(str(address[1][3])),
                            unit       |-> Some(str(address[1][4]))])]

\* a failing call that leaves a controller entry behind
Failed_ControllerLeft(devs, error) ==
    [error |-> error, devices |-> Append(devs, NewController(0)),
     dev |-> None, address |-> None]

\* add_disk raising: nothing has been attached to the document
Failed(devs, error) ==
    [error |-> error, devices |-> devs, dev |-> None, address |-> None]

\* the pool type looked at before the bus
ArgumentError_PoolTypeFirst(volume, bus) ==
    IF volume.pool_type \notin {"dir", "logical", "rbd"}
    THEN "UnsupportedVolumeTypeError"
    ELSE IF volume.pool_type = "rbd" /\ volume.path = None
    THEN "RuntimeError: Volume is missing path"
    ELSE IF bus \notin DOMAIN DISK_BUS_PROPERTIES
    THEN "UnsupportedBusError"
    ELSE "none"

\* lines 420-484: the error the bus lookup and the pool-type branches
\* raise, in the order the code reaches them
ArgumentError(volume, bus) ==
    IF bus \notin DOMAIN DISK_BUS_PROPERTIES
    THEN "UnsupportedBusError"
    ELSE IF volume.pool_type \notin {"dir", "logical", "rbd"}
    THEN "UnsupportedVolumeTypeError"
    ELSE IF volume.pool_type = "rbd" /\ volume.path = None
    THEN "RuntimeError: Volume is missing path"
    ELSE "none"

\* [error, devices, dev, address]: the outcome of one add_disk call on a
\* document whose <devices> children are devs.
add_disk(devs, volume, bus, cache, discard, boot_order) ==
    IF ArgumentError(volume, bus) # "none"
    THEN Failed(devs, ArgumentError(volume, bus))
    ELSE LET dev == AllocateDev(devs, bus)
         IN  IF dev = None
             THEN Failed(devs, "RuntimeError: All possible disk devices are already used")
             ELSE IF bus = DISK_BUS_SCSI
             THEN LET a == allocate_scsi_address(devs)
                  IN  IF a.error # "none"
                      THEN Failed(devs, a.error)
                      ELSE [error   |-> "none",
                            devices |-> Append(a.devices,
                                               DiskElement(volume, bus, dev[1], cache,
                                                           discard, boot_order, a.address)),
                            dev     |-> dev,
                            address |-> a.address]
             ELSE [error   |-> "none",
                   devices |-> Append(devs,
                                      DiskElement(volume, bus, dev[1], cache,
                                                  discard, boot_order, None)),
                   dev     |-> dev,
                   address |-> None]

-----------------------------------------------------------------------------
(* DomainDefinition._get_emulator.  Capabilities are                       *)
(*   [host_arch, guests]; host_arch is the optional ./host/cpu/arch        *)
(*   element, given by its optional text; a guest is [os_type, archs]; an  *)
(*   arch block is [name, emulator, machines, domains]; a domain sub-block *)
(*   is [type, emulator, machines].  An emulator is the optional element,  *)
(*   given by its optional text.                                           *)

\* arch_el.find("./domain[@type='T']/machine[.='M']"): some sub-block of the
\* domain type lists the machine
DomainListsMachine(arch_el, domain_type, machine) ==
    \E i \in DOMAIN arch_el.domains :
        /\ arch_el.domains[i].type = domain_type
        /\ \E k \in DOMAIN arch_el.domains[i].machines :
              arch_el.domains[i].machines[k] = machine

\* arch_el.find("./machine[.='M']")
ArchListsMachine(arch_el, machine) ==
    \E k \in DOMAIN arch_el.machines : arch_el.machines[k] = machine

\* the machine looked up under the sub-blocks of every domain type
MachineListed_AnyDomain(arch_el, domain_type, machine) ==
    \/ \E i \in DOMAIN arch_el.domains :
          \E k \in DOMAIN arch_el.domains[i].machines :
              arch_el.domains[i].machines[k] = machine
    \/ ArchListsMachine(arch_el, machine)

\* lines 281-287: the machine is listed under the domain type or, failing
\* that, at architecture level
MachineListed(arch_el, domain_type, machine) ==
    \/ DomainListsMachine(arch_el, domain_type, machine)
    \/ ArchListsMachine(arch_el, machine)

\* arch_el.find("./domain[@type='T']/emulator"): the first emulator element
\* of the sub-blocks of the domain type, in document order
DomainEmulatorEl(arch_el, domain_type) ==
    LET has == {i \in DOMAIN arch_el.domains :
                   /\ arch_el.domains[i].type = domain_type
                   /\ arch_el.domains[i].emulator # None}
    IN  IF has = {} THEN None ELSE arch_el.domains[Min(has)].emulator

\* the architecture-level emulator tried first
ArchEmulator_ArchFirst(arch_el, domain_type) ==
    LET arch_emulator_el   == arch_el.emulator
        domain_emulator_el == DomainEmulatorEl(arch_el, domain_type)
    IN  IF arch_emulator_el # None /\ arch_emulator_el[1] # None
        THEN [error |-> "none", text |-> arch_emulator_el[1][1]]
        ELSE IF domain_emulator_el # None /\ domain_emulator_el[1] # None
        THEN [error |-> "none", text |-> domain_emulator_el[1][1]]
        ELSE [error |-> "RuntimeError: Found architecture is missing emulator",
              text  |-> ""]

\* lines 289-301: the emulator of a matching arch block: the domain type's
\* own emulator, else the architecture-level one, else an error
ArchEmulator(arch_el, domain_type) ==
    LET domain_emulator_el == DomainEmulatorEl(arch_el, domain_type)
        arch_emulator_el   == arch_el.emulator
    IN  IF domain_emulator_el # None /\ domain_emulator_el[1] # None
        THEN [error |-> "none", text |-> domain_emulator_el[1][1]]
        ELSE IF arch_emulator_el # None /\ arch_emulator_el[1] # None
        THEN [error |-> "none", text |-> arch_emulator_el[1][1]]
        ELSE [error |-> "RuntimeError: Found architecture is missing emulator",
              text  |-> ""]

\* lines 267-287: the arch blocks the two loops reach the emulator lookup
\* with, as <<guest index, arch index>>, in document order
MatchingArchs(caps, domain_type, arch_name, machine) ==
    {<<g, x>> \in
        UNION {{<<g, x>> : x \in DOMAIN caps.guests[g].archs} :
                  g \in DOMAIN caps.guests} :
        /\ caps.guests[g].os_type = Some("hvm")
        /\ caps.guests[g].archs[x].name = arch_name
        /\ \E i \in DOMAIN caps.guests[g].archs[x].domains :
              caps.guests[g].archs[x].domains[i].type = domain_type
        /\ MachineListed(caps.guests[g].archs[x], domain_type, machine)}

\* the first pair in document order
FirstPair(S) ==
    CHOOSE p \in S :
        \A q \in S : p[1] < q[1] \/ (p[1] = q[1] /\ p[2] <= q[2])

\* [error, text]: the emulator path, or the error the lookup raises
get_emulator(caps, domain_type, arch_name, machine) ==
    LET matching == MatchingArchs(caps, domain_type, arch_name, machine)
    IN  IF matching = {}
        THEN [error |-> "RuntimeError: Unable to find a suitable guest architecture in capabilities",
              text  |-> ""]
        ELSE LET p == FirstPair(matching)
             IN  ArchEmulator(caps.guests[p[1]].archs[p[2]], domain_type)

-----------------------------------------------------------------------------
(* DomainDefinition.__init__.  A document is [tag, type, children]: the    *)
(* root's tag, its optional type attribute and its children in document    *)
(* order; every child is a record with a tag field.                        *)

\* Element.find(tag): the index of the first child with the tag, 0 for None
FindFirst(children, tag) ==
    LET has == {i \in DOMAIN children : children[i].tag = tag}
    IN  IF has = {} THEN 0 ELSE Min(has)

\* Element.remove(child)
RemoveAt(children, i) ==
    [k \in 1..(Len(children) - 1) |->
        IF k < i THEN children[k] ELSE children[k + 1]]

\* lines 193-198: the first uuid element gets the text, or one is appended
SetUuid(children, uuid) ==
    IF uuid = None THEN children
    ELSE LET i == FindFirst(children, "uuid")
         IN  IF i = 0
             THEN Append(children, [tag |-> "uuid", text |-> uuid[1]])
             ELSE [children EXCEPT ![i].text = uuid[1]]

OsTypeElement(arch_name, machine) ==
    [tag |-> "type", arch |-> arch_name, machine |-> machine, text |-> "hvm"]

\* lines 200-210: the first os element (appended when missing) loses its
\* first type child and gets a new one at its end
SetOsType(children, arch_name, machine) ==
    LET i       == FindFirst(children, "os")
        withOs  == IF i = 0
                   THEN Append(children, [tag |-> "os", children |-> <<>>])
                   ELSE children
        o       == IF i = 0 THEN Len(withOs) ELSE i
        os_el   == withOs[o].children
        t       == FindFirst(os_el, "type")
        removed == IF t = 0 THEN os_el ELSE RemoveAt(os_el, t)
    IN  [withOs EXCEPT
            ![o].children = Append(removed, OsTypeElement(arch_name, machine))]

HostPassthroughCpu ==
    [tag |-> "cpu",
     attrib |-> [mode |-> "host-passthrough", check |-> "none",
                 migratable |-> "on"],
     children |-> <<>>]

CustomCpu(cpu_model) ==
    [tag |-> "cpu",
     attrib |-> [mode |-> "custom", match |-> "exact"],
     children |-> <<[tag |-> "model", fallback |-> "allow",
                     text |-> cpu_model]>>]

\* lines 212-230: without a model a host-passthrough cpu is appended only
\* when find("cpu") is None; with a model the element found is removed and
\* a custom one appended
SetCpu(children, cpu_model) ==
    LET i == FindFirst(children, "cpu")
    IN  IF cpu_model = None
        THEN IF i = 0 THEN Append(children, HostPassthroughCpu) ELSE children
        ELSE Append(IF i = 0 THEN children ELSE RemoveAt(children, i),
                    CustomCpu(cpu_model[1]))

\* lines 232-235: for each of the four tags the first child found is removed
RemoveIdentity(children) ==
    LET RemoveFirst(c, tag) ==
            LET i == FindFirst(c, tag)
            IN  IF i = 0 THEN c ELSE RemoveAt(c, i)
    IN  RemoveFirst(RemoveFirst(RemoveFirst(RemoveFirst(children, "name"),
                                            "memory"),
                                "currentMemory"),
                    "vcpu")

\* lines 232-245: name, memory and vcpu elements appended after the removal
SetIdentity(children, name, ram_bytes, vcpus) ==
    RemoveIdentity(children) \o
    <<[tag |-> "name", text |-> name],
      [tag |-> "memory", unit |-> "bytes", text |-> str(ram_bytes)],
      [tag |-> "vcpu", placement |-> "static", text |-> str(vcpus)]>>

\* lines 247-249: a devices element is appended when find returns None
EnsureDevices(children) ==
    IF FindFirst(children, "devices") = 0
    THEN Append(children, [tag |-> "devices", children |-> <<>>])
    ELSE children

\* lines 253-256: the first emulator child gets the text, or one is appended
SetEmulator(devs, text) ==
    LET i == FindFirst(devs, "emulator")
    IN  IF i = 0
        THEN Append(devs, [tag |-> "emulator", text |-> text])
        ELSE [devs EXCEPT ![i].text = text]

\* the place in the document of the element self._devices_el refers to; its
\* children are the builder's devices
DevicesRef == [tag |-> "devices", ref |-> "_devices_el"]

\* the host architecture preferred to the caller's arch_name
ResolveArch_HostFirst(arch_name, caps) ==
    IF caps.host_arch # None /\ caps.host_arch[1] # None
    THEN caps.host_arch[1]
    ELSE arch_name

\* lines 184-191: the caller's arch_name, else the text of ./host/cpu/arch
ResolveArch(arch_name, caps) ==
    IF arch_name # None THEN arch_name
    ELSE IF caps.host_arch # None /\ caps.host_arch[1] # None
    THEN caps.host_arch[1]
    ELSE None

CtorFailed(error) ==
    [error |-> error, domain_el |-> None, devices |-> <<>>, arch_name |-> None]

\* [error, domain_el, devices, arch_name]: the outcome of the constructor
\* called with arguments a on the template base and the capabilities caps
DomainDefinition(a, base, caps) ==
    IF base.tag # "domain"
    THEN CtorFailed("InvalidBaseXmlError")
    ELSE LET arch_name == ResolveArch(a.arch_name, caps)
         IN  IF arch_name = None
             THEN CtorFailed("RuntimeError: Unable to get target arch name")
             ELSE LET c1  == SetUuid(base.children, a.uuid)
                      c2  == SetOsType(c1, arch_name[1], a.machine)
                      c3  == SetCpu(c2, a.cpu_model)
                      c4  == SetIdentity(c3, a.name, a.ram_bytes, a.vcpus)
                      c5  == EnsureDevices(c4)
                      d   == FindFirst(c5, "devices")
                      emu == get_emulator(caps, a.domain_type, arch_name[1],
                                          a.machine)
                  IN  IF emu.error # "none"
                      THEN CtorFailed(emu.error)
                      ELSE [error     |-> "none",
                            domain_el |->
                                Some([tag      |-> "domain",
                                      type     |-> Some(a.domain_type),
                                      children |-> [c5 EXCEPT ![d] = DevicesRef]]),
                            devices   |-> SetEmulator(c5[d].children, emu.text),
                            arch_name |-> arch_name]

\* str(self): the document with the builder's devices in their place
Document(el, devs) ==
    [el EXCEPT !.children =
        [i \in DOMAIN el.children |->
            IF el.children[i] = DevicesRef
            THEN [tag |-> "devices", children |-> devs]
            ELSE el.children[i]]]

\* the name, memory and vcpu properties: the first element of the tag
NameProperty(el) == el.children[FindFirst(el.children, "name")].text

MemoryProperty(el) == int(el.children[FindFirst(el.children, "memory")].text)

VcpuProperty(el) == int(el.children[FindFirst(el.children, "vcpu")].text)

-----------------------------------------------------------------------------
(* DomainDefinition.add_network_interface / add_bridge_interface *)

\* _add_generic_interface and the type and source its callers set: kind is
\* "network" or "bridge", source the network or bridge name
InterfaceElement(kind, source, model_type, mac_address, boot_order, mtu) ==
    [tag    |-> "interface",
     type   |-> kind,
     model  |-> [type |-> model_type],
     mtu    |-> IF mtu = None THEN None ELSE Some(str(mtu[1])),
     mac    |-> mac_address,
     boot   |-> IF boot_order = None THEN None ELSE Some(str(boot_order[1])),
     source |-> IF kind = "bridge" THEN [bridge |-> source]
                ELSE [network |-> source]]

\* a builder that turns down an interface whose MAC address is in use
add_interface_UniqueMac(devs, kind, source, model_type, mac_address, boot_order, mtu) ==
    IF /\ mac_address # None
       /\ \E k \in DOMAIN devs :
             devs[k].tag = "interface" /\ devs[k].mac = mac_address
    THEN devs
    ELSE Append(devs, InterfaceElement(kind, source, model_type, mac_address,
                                       boot_order, mtu))

\* the <devices> children after add_network_interface / add_bridge_interface
add_interface(devs, kind, source, model_type, mac_address, boot_order, mtu) ==
    Append(devs, InterfaceElement(kind, source, model_type, mac_address,
                                  boot_order, mtu))

-----------------------------------------------------------------------------
(* Bounds of the model *)

\* add_disk calls made on one builder
MaxCalls == 3

\* define calls made on one builder
MaxDefines == 2

-----------------------------------------------------------------------------
(* Base templates: the <devices> children the constructor finds in basexml *)

TplAddress(controller, bus, target, unit) ==
    Some([type       |-> "drive",
          controller |-> Some(str(controller)),
          bus        |-> Some(str(bus)),
          target     |-> Some(str(target)),
          unit       |-> Some(str(unit))])

TplDisk(bus, dev, address) ==
    [tag     |-> "disk",
     type    |-> "volume",
     device  |-> "disk",
     source  |-> [pool |-> "default", volume |-> "template"],
     target  |-> Some([dev |-> Some(dev), bus |-> bus]),
     driver  |-> [name |-> "qemu", type |-> "raw", cache |-> "none",
                  discard |-> None],
     boot    |-> None,
     address |-> address]

TplController(model, index) ==
    [tag |-> "controller", type |-> "scsi", model |-> model, index |-> index]

\* no devices at all
TplEmpty == <<>>

\* names with gaps, a name without the bus prefix, an addressed SCSI disk
TplGaps ==
    <<TplDisk("virtio", <<"v", "d", "a">>, None),
      TplDisk("virtio", <<"v", "d", "c">>, None),
      TplDisk("virtio", <<"h", "d", "a">>, None),
      TplController("virtio-scsi", Some(<<"0">>)),
      TplDisk("scsi", <<"s", "d", "b">>, TplAddress(0, 0, 0, 1))>>

\* a SCSI disk on controller 0 of another model: no virtio-scsi controller entry
TplForeignController ==
    <<TplController("lsilogic", Some(<<"0">>)),
      TplDisk("scsi", <<"s", "d", "a">>, TplAddress(0, 0, 0, 0))>>

\* one empty virtio-scsi controller whose index is not 0
TplController3 == <<TplController("virtio-scsi", Some(<<"3">>))>>

\* a virtio-scsi controller without an index attribute
TplControllerNoIndex == <<TplController("virtio-scsi", None)>>

\* a SCSI disk without an address element
TplNoAddress == <<TplDisk("scsi", <<"s", "d", "a">>, None)>>

\* all virtio names but the last one in use
TplVirtioAlmostFull ==
    [i \in 1..(VirtioMaxNr - 1) |->
        TplDisk("virtio", <<"v", "d">> \o index_to_drive_name(i - 1), None)]

\* all scsi names but the last one in use, eight disks to a target
TplScsiAlmostFull ==
    <<TplController("virtio-scsi", Some(<<"0">>))>> \o
    [i \in 1..(ScsiMaxNr - 1) |->
        TplDisk("scsi", <<"s", "d">> \o index_to_drive_name(i - 1),
                TplAddress(0, 0, (i - 1) \div 8, (i - 1) % 8))]

BaseTemplates ==
    {TplEmpty, TplGaps, TplForeignController, TplController3,
     TplControllerNoIndex, TplNoAddress}

\* templates one add_disk call away from using up a bus's device names
AlmostFullTemplates == {TplVirtioAlmostFull, TplScsiAlmostFull}

\* the emulator element the constructor leaves under <devices>
EmulatorElement == [tag |-> "emulator", text |-> "/usr/bin/qemu-kvm"]

-----------------------------------------------------------------------------
(* Capabilities documents getCapabilities() returns *)

\* the capabilities of tests/libvirt_mock.py
CapsMock ==
    [host_arch |-> Some(Some("x86_64")),
     guests |->
       <<[os_type |-> Some("hvm"),
          archs |->
            <<[name |-> "x86_64",
               emulator |-> Some(Some("/usr/bin/qemu-system-x86_64")),
               machines |-> <<"pc-i440fx-6.2", "pc">>,
               domains |->
                 <<[type |-> "qemu",
                    emulator |-> Some(Some("/usr/bin/qemu")),
                    machines |-> <<"pc-i440fx-6.1">>],
                   [type |-> "kvm",
                    emulator |-> Some(Some("/usr/bin/qemu-kvm")),
                    machines |-> <<"pc-i440fx-7.0">>]>>]>>]>>]

\* no ./host/cpu/arch element
CapsNoHostArch == [CapsMock EXCEPT !.host_arch = None]

\* an empty ./host/cpu/arch element
CapsEmptyHostArch == [CapsMock EXCEPT !.host_arch = Some(None)]

\* an aarch64 host: a guest without os_type and a xen guest ahead of the
\* hvm guest; sub-blocks without an emulator or with an empty one; an arch
\* block without an emulator
CapsMixed ==
    [host_arch |-> Some(Some("aarch64")),
     guests |->
       <<[os_type |-> None,
          archs |->
            <<[name |-> "x86_64",
               emulator |-> Some(Some("/usr/bin/qemu-no-os-type")),
               machines |-> <<"pc">>,
               domains |-> <<[type |-> "kvm", emulator |-> None,
                              machines |-> <<>>]>>]>>],
         [os_type |-> Some("xen"),
          archs |->
            <<[name |-> "x86_64",
               emulator |-> Some(Some("/usr/bin/qemu-xen")),
               machines |-> <<"pc">>,
               domains |-> <<[type |-> "kvm",
                              emulator |-> Some(Some("/usr/bin/qemu-xen-kvm")),
                              machines |-> <<>>]>>]>>],
         [os_type |-> Some("hvm"),
          archs |->
            <<[name |-> "x86_64",
               emulator |-> None,
               machines |-> <<"pc">>,
               domains |->
                 <<[type |-> "kvm", emulator |-> Some(None),
                    machines |-> <<"pc-i440fx-7.0">>],
                   [type |-> "qemu",
                    emulator |-> Some(Some("/usr/bin/qemu")),
                    machines |-> <<>>]>>],
              [name |-> "aarch64",
               emulator |-> Some(Some("/usr/bin/qemu-system-aarch64")),
               machines |-> <<"virt">>,
               domains |->
                 <<[type |-> "kvm", emulator |-> None,
                    machines |-> <<"pc">>]>>]>>]>>]

Capabilities == {CapsMock, CapsNoHostArch, CapsEmptyHostArch, CapsMixed}

-----------------------------------------------------------------------------
(* Base templates as whole documents, and constructor arguments *)

\* <domain></domain>
DocEmpty == [tag |-> "domain", type |-> None, children |-> <<>>]

\* the template of test_domain_init
DocIdentity ==
    [tag |-> "domain", type |-> None,
     children |->
       <<[tag |-> "name", text |-> "test"],
         [tag |-> "memory", unit |-> "KiB", text |-> str(12345)],
         [tag |-> "vcpu", placement |-> "static", text |-> str(2)]>>]

TplCpu(model) ==
    [tag |-> "cpu", attrib |-> [mode |-> "host-model"],
     children |-> <<[tag |-> "model", fallback |-> "forbid", text |-> model]>>]

\* a template that has one element of every kind the constructor writes
DocComplete ==
    [tag |-> "domain", type |-> Some("qemu"),
     children |->
       <<[tag |-> "name", text |-> "test"],
         [tag |-> "uuid", text |-> "template-uuid"],
         [tag |-> "memory", unit |-> "KiB", text |-> str(12345)],
         [tag |-> "currentMemory", unit |-> "KiB", text |-> str(12345)],
         [tag |-> "vcpu", placement |-> "static", text |-> str(2)],
         [tag |-> "os",
          children |-> <<[tag |-> "type", arch |-> "i686",
                          machine |-> "isapc", text |-> "hvm"],
                         [tag |-> "boot", dev |-> "hd"]>>],
         TplCpu("TestCPU"),
         [tag |-> "devices",
          children |-> <<[tag |-> "emulator", text |-> "/dev/null"],
                         TplDisk("virtio", <<"v", "d", "a">>, None)>>]>>]

\* a template that has two elements of each kind
DocDuplicates ==
    [tag |-> "domain", type |-> None,
     children |->
       <<[tag |-> "name", text |-> "test"],
         [tag |-> "name", text |-> "test2"],
         [tag |-> "memory", unit |-> "KiB", text |-> str(12345)],
         [tag |-> "memory", unit |-> "KiB", text |-> str(54321)],
         [tag |-> "vcpu", placement |-> "static", text |-> str(2)],
         [tag |-> "vcpu", placement |-> "static", text |-> str(4)],
         TplCpu("TestCPU"),
         TplCpu("TestCPU2"),
         [tag |-> "devices",
          children |-> <<[tag |-> "emulator", text |-> "/dev/null"],
                         [tag |-> "emulator", text |-> "/dev/zero"]>>],
         [tag |-> "devices", children |-> <<>>]>>]

\* a document whose root is not <domain>
DocNotDomain ==
    [tag |-> "domainsnapshot", type |-> None,
     children |-> <<[tag |-> "name", text |-> "test"]>>]

BaseDocuments ==
    {DocEmpty, DocIdentity, DocComplete, DocDuplicates, DocNotDomain}

\* the document a template of <devices> children stands for
DevicesDocument(tpl) ==
    [tag |-> "domain", type |-> None,
     children |-> IF tpl = <<>> THEN <<>>
                  ELSE <<[tag |-> "devices", children |-> tpl]>>]

\* the children of the first <devices> element of a document
TemplateDevices(base) ==
    LET d == FindFirst(base.children, "devices")
    IN  IF d = 0 THEN <<>> ELSE base.children[d].children

\* the arguments of the tests: kvm, x86_64, pc, 16777216 bytes, 1 vcpu
DefaultArgs ==
    [name |-> "foo", ram_bytes |-> 16777216, vcpus |-> 1,
     domain_type |-> "kvm", machine |-> "pc", uuid |-> None,
     arch_name |-> Some("x86_64"), cpu_model |-> None]

DomainTypes == {"kvm", "qemu", "xen"}

Machines == {"pc", "pc-i440fx-7.0", "pc-i440fx-6.1", "INVALID"}

ArchNames == {None, Some("x86_64"), Some("aarch64"), Some("INVALID")}

\* resolution inputs on the empty template, document inputs on the mock's
\* capabilities
CtorInputs ==
    {[args |-> [DefaultArgs EXCEPT !.domain_type = t, !.machine = m,
                                   !.arch_name = an],
      caps |-> c, base |-> DocEmpty] :
        t \in DomainTypes, m \in Machines, an \in ArchNames,
        c \in Capabilities}
    \cup
    {[args |-> [DefaultArgs EXCEPT !.ram_bytes = r, !.uuid = u,
                                   !.cpu_model = cm, !.arch_name = an],
      caps |-> CapsMock, base |-> b] :
        r \in {16777216, 16777217}, u \in {None, Some("new-uuid")},
        cm \in {None, Some("SandyBridge")},
        an \in {None, Some("x86_64")}, b \in BaseDocuments}

-----------------------------------------------------------------------------
(* Arguments of add_disk *)

VolDir ==
    [pool_type |-> "dir", pool_name |-> "default", name |-> "vm-disk0",
     path |-> Some("/var/lib/libvirt/images/vm-disk0"),
     pool_hosts |-> <<>>, pool_auth |-> None]

VolRbd ==
    [pool_type |-> "rbd", pool_name |-> "ceph", name |-> "vm-disk0",
     path |-> Some("rbd1/vm-disk0"),
     pool_hosts |-> <<[name |-> Some("mon1"), port |-> None],
                      [name |-> None, port |-> Some("6789")]>>,
     pool_auth |-> Some([username |-> Some("libvirt"),
                         secret_uuid |-> Some("89890794")])]

VolRbdNoPath ==
    [pool_type |-> "rbd", pool_name |-> "ceph", name |-> "vm-disk0",
     path |-> None, pool_hosts |-> <<>>, pool_auth |-> None]

VolZfs ==
    [pool_type |-> "zfs", pool_name |-> "tank", name |-> "vm-disk0",
     path |-> None, pool_hosts |-> <<>>, pool_auth |-> None]

VolLogical ==
    [pool_type |-> "logical", pool_name |-> "scratch", name |-> "vm-disk1",
     path |-> Some("/dev/scratch/vm-disk1"),
     pool_hosts |-> <<>>, pool_auth |-> None]

Buses == {DISK_BUS_VIRTIO, DISK_BUS_SCSI, "ide"}

\* the (volume, cache, discard, boot_order) arguments callers pass
DiskArgs ==
    {[volume |-> VolDir, cache |-> "none", discard |-> None,
      boot_order |-> None],
     [volume |-> VolRbd, cache |-> "writeback", discard |-> Some("unmap"),
      boot_order |-> Some(1)],
     [volume |-> VolRbdNoPath, cache |-> "none", discard |-> None,
      boot_order |-> None],
     [volume |-> VolZfs, cache |-> "none", discard |-> None,
      boot_order |-> None]}

\* the arguments of DiskArgs and a volume of a logical pool
DiskKindArgs ==
    DiskArgs \cup
    {[volume |-> VolLogical, cache |-> "none", discard |-> None,
      boot_order |-> None]}

\* the (source, model_type, mac_address, boot_order, mtu) arguments callers
\* pass to add_network_interface and add_bridge_interface
InterfaceArgs ==
    {[kind |-> "network", source |-> "default", model_type |-> "virtio",
      mac_address |-> None, boot_order |-> None, mtu |-> None],
     [kind |-> "bridge", source |-> "br0", model_type |-> "e1000",
      mac_address |-> Some("52:54:00:00:00:01"), boot_order |-> Some(1),
      mtu |-> Some(9000)],
     [kind |-> "network", source |-> "default", model_type |-> "virtio",
      mac_address |-> Some("52:54:00:00:00:01"), boot_order |-> Some(1),
      mtu |-> None],
     [kind |-> "bridge", source |-> "br1", model_type |-> "virtio",
      mac_address |-> None, boot_order |-> None, mtu |-> Some(1500)]}

-----------------------------------------------------------------------------
(* Volume.__init__: callers and the storage pools they work on *)

Callers == {1, 2}

NoPools == [p \in {} |-> p]

VolumeIdle ==
    /\ pools = NoPools
    /\ pc = [c \in Callers |-> "idle"]
    /\ args = [c \in Callers |-> None]
    /\ loc = [c \in Callers |-> None]
    /\ result = [c \in Callers |-> "idle"]
    /\ hvcalls = [c \in Callers |-> None]

-----------------------------------------------------------------------------
(* One DomainDefinition: construction, then add_disk and define calls *)

\* the outcome of the latest call on the builder
NoCall ==
    [op |-> "init", bus |-> "", error |-> "none", dev |-> None,
     address |-> None, volume |-> None, interface |-> None]

\* a builder constructed with the arguments of the tests on the mock's
\* capabilities
DomainInit(templates) ==
    /\ basexml \in templates
    /\ ctor = [phase |-> "built", args |-> DefaultArgs, caps |-> CapsMock,
               base |-> DevicesDocument(basexml), error |-> "none"]
    /\ LET r == DomainDefinition(DefaultArgs, DevicesDocument(basexml),
                                 CapsMock)
       IN  /\ domain_el = r.domain_el
           /\ devices = r.devices
    /\ domains = None
    /\ defineXMLCalls = 0
    /\ last = NoCall
    /\ ncalls = 0

AddDisk(a, bus) ==
    /\ ncalls < MaxCalls
    /\ LET r == add_disk(devices, a.volume, bus, a.cache, a.discard,
                         a.boot_order)
       IN  /\ devices' = r.devices
           /\ last' = [op |-> "add_disk", bus |-> bus, error |-> r.error,
                       dev |-> r.dev, address |-> r.address,
                       volume |-> Some(a.volume), interface |-> None]
    /\ ncalls' = ncalls + 1
    /\ UNCHANGED <<basexml, domains, defineXMLCalls, ctor, domain_el>>
    /\ UNCHANGED volumeVars
    /\ UNCHANGED auxVars

\* define(): self._conn.defineXML(str(self)); the connection stores the
\* document under the domain's name, replacing what it held
Define ==
    /\ defineXMLCalls < MaxDefines
    /\ domains' = Some(devices)
    /\ defineXMLCalls' = defineXMLCalls + 1
    /\ last' = [NoCall EXCEPT !.op = "define"]
    /\ UNCHANGED <<devices, basexml, ncalls, ctor, domain_el>>
    /\ UNCHANGED volumeVars
    /\ UNCHANGED auxVars

\* add_network_interface(source, **kwargs) / add_bridge_interface(source,
\* **kwargs)
AddInterface(i) ==
    /\ ncalls < MaxCalls
    /\ devices' = add_interface(devices, i.kind, i.source, i.model_type,
                                i.mac_address, i.boot_order, i.mtu)
    /\ last' = [NoCall EXCEPT !.op = "add_interface", !.interface = Some(i)]
    /\ ncalls' = ncalls + 1
    /\ UNCHANGED <<basexml, domains, defineXMLCalls, ctor, domain_el>>
    /\ UNCHANGED volumeVars
    /\ UNCHANGED auxVars

Init == DomainInit(BaseTemplates) /\ VolumeIdle /\ AuxIdle

Next ==
    \/ \E a \in DiskArgs, bus \in Buses : AddDisk(a, bus)
    \/ Define

Spec == Init /\ [][Next]_vars

-----------------------------------------------------------------------------
(* One DomainDefinition built from a template whose device names are      *)
(* nearly used up; callers attach dir and rbd volumes                      *)

AlmostFullInit == DomainInit(AlmostFullTemplates) /\ VolumeIdle /\ AuxIdle

AlmostFullNext ==
    \E a \in {x \in DiskArgs : x.volume \in {VolDir, VolRbd}}, bus \in Buses :
        AddDisk(a, bus)

AlmostFullSpec == AlmostFullInit /\ [][AlmostFullNext]_vars

-----------------------------------------------------------------------------
(* One DomainDefinition to which volumes of every pool type are attached   *)
(* on every bus                                                            *)

DiskKindInit == DomainInit({TplEmpty, TplGaps}) /\ VolumeIdle /\ AuxIdle

DiskKindNext == \E a \in DiskKindArgs, bus \in Buses : AddDisk(a, bus)

DiskKindSpec == DiskKindInit /\ [][DiskKindNext]_vars

-----------------------------------------------------------------------------
(* The constructor called on a template, capabilities and arguments, and   *)
(* add_disk / add_network_interface / add_bridge_interface calls on the    *)
(* builder it returns                                                      *)

ConstructInit ==
    /\ \E i \in CtorInputs :
          ctor = [phase |-> "new", args |-> i.args, caps |-> i.caps,
                  base |-> i.base, error |-> "none"]
    /\ basexml = TemplateDevices(ctor.base)
    /\ devices = <<>>
    /\ domain_el = None
    /\ domains = None
    /\ defineXMLCalls = 0
    /\ last = NoCall
    /\ ncalls = 0
    /\ VolumeIdle
    /\ AuxIdle

\* DomainDefinition(name, ram_bytes=..., vcpus=..., basexml=..., ...)
Construct ==
    /\ ctor.phase = "new"
    /\ LET r == DomainDefinition(ctor.args, ctor.base, ctor.caps)
       IN  /\ ctor' = [ctor EXCEPT
                          !.phase = IF r.error = "none" THEN "built"
                                    ELSE "failed",
                          !.error = r.error]
           /\ domain_el' = r.domain_el
           /\ devices' = r.devices
    /\ UNCHANGED <<basexml, domains, defineXMLCalls, last, ncalls>>
    /\ UNCHANGED volumeVars
    /\ UNCHANGED auxVars

ConstructNext ==
    \/ Construct
    \/ /\ ctor.phase = "built"
       /\ \E a \in {x \in DiskArgs : x.volume = VolDir},
             bus \in {DISK_BUS_VIRTIO, DISK_BUS_SCSI} : AddDisk(a, bus)
    \/ /\ ctor.phase = "built"
       /\ \E i \in InterfaceArgs : AddInterface(i)

ConstructSpec == ConstructInit /\ [][ConstructNext]_vars

-----------------------------------------------------------------------------
(* Volume.__init__ against the storage pools of tests/libvirt_mock.py.     *)
(* pools.volumes[p] is the pool's _volumes dict (volume name -> optional   *)
(* object id); pools.objects[id] is the volume object's XML: its name and  *)
(* the text of its capacity and allocation elements.                       *)

MiB == 1048576

PoolNames == {"default", "scratch"}

VolNames == {"base", "vm-disk0", "vm-disk1"}

TargetNames == {"vm-disk0", "vm-disk1"}

RequestSizes == {0, MiB, 16 * MiB - 6, 16 * MiB}

SourceCapacities == {MiB, 16 * MiB, 32 * MiB}

\* the requested size cut down to a multiple of 1 MiB
AlignedSize_RoundsDown(create_size_bytes) ==
    create_size_bytes - (create_size_bytes % MiB)

\* lines 62-66: the requested size padded to the next multiple of 1 MiB
AlignedSize(create_size_bytes) ==
    LET alignment_remainder == create_size_bytes % MiB
    IN  IF alignment_remainder = 0
        THEN create_size_bytes
        ELSE create_size_bytes + (MiB - alignment_remainder)

VolumeXml(name, capacity, allocation) ==
    [name |-> name, capacity |-> str(capacity), allocation |-> str(allocation)]

\* virStoragePool.listVolumes
listVolumes(p) == {n \in VolNames : pools.volumes[p][n] # None}

\* virStorageVol.info: (capacity, allocation, available)
info(id) ==
    LET capacity   == int(pools.objects[id].capacity)
        allocation == int(pools.objects[id].allocation)
    IN  <<capacity, allocation, capacity>>

\* virStoragePool.createXML: a new volume object stored under its name,
\* replacing whatever the dict held under that name
createXML(p, xml) ==
    LET id == Len(pools.objects) + 1
    IN  [volumes |-> [pools.volumes EXCEPT ![p][xml.name] = Some(id)],
         objects |-> Append(pools.objects, xml)]

\* virStorageVol.resize: rewrites the capacity text of the object
resize(id, capacity) ==
    [pools EXCEPT !.objects[id].capacity = str(capacity)]

\* the existing-name check dropped
VolumeExists_Never(name, pool_name) == FALSE

\* line 82: name in set(self.pool.listVolumes())
VolumeExists(name, pool_name) == name \in listVolumes(pool_name)

\* libvirt.VIR_STORAGE_VOL_RESIZE_ALLOCATE
VIR_STORAGE_VOL_RESIZE_ALLOCATE == "VIR_STORAGE_VOL_RESIZE_ALLOCATE"

\* per caller: the number of createXML, createXMLFrom and resize calls
\* issued, and the arguments of the resize call
NoCalls ==
    [createXML |-> 0, createXMLFrom |-> 0, resize |-> 0, resize_args |-> None]

VolumeArgs ==
    [name : TargetNames, create_size_bytes : RequestSizes,
     pool_name : {"default"}, exist_ok : BOOLEAN,
     source_pool_name : {None, Some("scratch")},
     source_name : {None, Some("base")}]

VolumeInit ==
    /\ \E cap \in SourceCapacities, existing \in BOOLEAN :
          pools =
            [volumes |->
                [p \in PoolNames |->
                    [n \in VolNames |->
                        IF n = "base" THEN Some(IF p = "default" THEN 1 ELSE 2)
                        ELSE IF n = "vm-disk0" /\ p = "default" /\ existing
                        THEN Some(3)
                        ELSE None]],
             objects |->
                <<VolumeXml("base", cap, cap),
                  VolumeXml("base", 16 * MiB, 16 * MiB)>> \o
                (IF existing THEN <<VolumeXml("vm-disk0", 2 * MiB, 2 * MiB)>>
                 ELSE <<>>)]
    /\ args \in [Callers -> VolumeArgs]
    /\ pc = [c \in Callers |-> "start"]
    /\ loc = [c \in Callers |->
                [volume_size_bytes |-> 0, listed |-> FALSE, volume |-> None,
                 source_volume |-> None, source_volume_capacity |-> 0]]
    /\ result = [c \in Callers |-> "pending"]
    /\ hvcalls = [c \in Callers |-> NoCalls]

Finish(c, outcome) ==
    /\ pc' = [pc EXCEPT ![c] = "done"]
    /\ result' = [result EXCEPT ![c] = outcome]

\* lines 62-89: alignment, pool lookup, listVolumes and the existing-name branch
VolLookup(c) ==
    /\ pc[c] = "start"
    /\ LET a      == args[c]
           size   == AlignedSize(a.create_size_bytes)
           listed == VolumeExists(a.name, a.pool_name)
       IN  /\ loc' = [loc EXCEPT ![c].volume_size_bytes = size,
                                 ![c].listed = listed,
                                 ![c].volume =
                                    IF listed /\ a.exist_ok
                                    THEN pools.volumes[a.pool_name][a.name]
                                    ELSE None]
           /\ IF listed
              THEN IF ~a.exist_ok
                   THEN Finish(c, "VolumeAlreadyExistsError")
                   ELSE Finish(c, "ok")
              ELSE /\ pc' = [pc EXCEPT ![c] = IF a.source_name = None
                                              THEN "create" ELSE "source"]
                   /\ UNCHANGED result
    /\ UNCHANGED <<pools, args, hvcalls>>
    /\ UNCHANGED domainVars
    /\ UNCHANGED auxVars

\* lines 95-108: a blank volume of the aligned size
VolCreate(c) ==
    /\ pc[c] = "create"
    /\ LET a == args[c]
           size == loc[c].volume_size_bytes
       IN  /\ pools' = createXML(a.pool_name, VolumeXml(a.name, size, size))
           /\ loc' = [loc EXCEPT ![c].volume = Some(Len(pools.objects) + 1)]
    /\ hvcalls' = [hvcalls EXCEPT ![c].createXML = @ + 1]
    /\ Finish(c, "ok")
    /\ UNCHANGED args
    /\ UNCHANGED domainVars
    /\ UNCHANGED auxVars

\* the check refusing a source of exactly the target size too
SourceTooBig_OrEqual(source_volume_capacity, volume_size_bytes) ==
    source_volume_capacity >= volume_size_bytes

\* line 122: the source does not fit into the aligned target size
SourceTooBig(source_volume_capacity, volume_size_bytes) ==
    source_volume_capacity > volume_size_bytes

\* lines 113-126: source lookup, its capacity, the too-big check
VolSource(c) ==
    /\ pc[c] = "source"
    /\ LET a == args[c]
           source_pool == IF a.source_pool_name # None
                          THEN a.source_pool_name[1] ELSE a.pool_name
           source_volume == pools.volumes[source_pool][a.source_name[1]]
       IN  IF source_volume = None
           THEN Finish(c, "libvirtError") /\ UNCHANGED loc
           ELSE LET source_volume_capacity == info(source_volume[1])[2]
                IN  /\ loc' = [loc EXCEPT
                                 ![c].source_volume = source_volume,
                                 ![c].source_volume_capacity = source_volume_capacity]
                    /\ IF SourceTooBig(source_volume_capacity,
                                       loc[c].volume_size_bytes)
                       THEN Finish(c, "SourceVolumeTooBigError")
                       ELSE /\ pc' = [pc EXCEPT ![c] = "clone"]
                            /\ UNCHANGED result
    /\ UNCHANGED <<pools, args, hvcalls>>
    /\ UNCHANGED domainVars
    /\ UNCHANGED auxVars

\* the clone grown also when the source is exactly the target size
NeedsGrow_OrEqual(source_volume_capacity, volume_size_bytes) ==
    source_volume_capacity <= volume_size_bytes

\* line 132: the source is strictly smaller than the aligned target size
NeedsGrow(source_volume_capacity, volume_size_bytes) ==
    source_volume_capacity < volume_size_bytes

\* lines 128-132: createXMLFrom, which the pool refuses when the name is taken
VolClone(c) ==
    /\ pc[c] = "clone"
    /\ hvcalls' = [hvcalls EXCEPT ![c].createXMLFrom = @ + 1]
    /\ LET a == args[c]
           clonevol == pools.objects[loc[c].source_volume[1]]
       IN  IF pools.volumes[a.pool_name][a.name] # None
           THEN Finish(c, "libvirtError") /\ UNCHANGED <<pools, loc>>
           ELSE /\ pools' = createXML(a.pool_name, [clonevol EXCEPT !.name = a.name])
                /\ loc' = [loc EXCEPT ![c].volume = Some(Len(pools.objects) + 1)]
                /\ IF NeedsGrow(loc[c].source_volume_capacity,
                                loc[c].volume_size_bytes)
                   THEN pc' = [pc EXCEPT ![c] = "resize"] /\ UNCHANGED result
                   ELSE Finish(c, "ok")
    /\ UNCHANGED args
    /\ UNCHANGED domainVars
    /\ UNCHANGED auxVars

\* lines 137-139: grow the clone to the aligned target size
VolResize(c) ==
    /\ pc[c] = "resize"
    /\ pools' = resize(loc[c].volume[1], loc[c].volume_size_bytes)
    /\ hvcalls' = [hvcalls EXCEPT
                      ![c].resize = @ + 1,
                      ![c].resize_args =
                          Some(<<loc[c].volume_size_bytes,
                                 VIR_STORAGE_VOL_RESIZE_ALLOCATE>>)]
    /\ Finish(c, "ok")
    /\ UNCHANGED <<args, loc>>
    /\ UNCHANGED domainVars
    /\ UNCHANGED auxVars

DomainIdle ==
    /\ basexml = <<>>
    /\ devices = <<>>
    /\ domains = None
    /\ defineXMLCalls = 0
    /\ last = NoCall
    /\ ncalls = 0
    /\ ctor = [phase |-> "idle"]
    /\ domain_el = None

VolumeNext ==
    \E c \in Callers :
        \/ VolLookup(c)
        \/ VolCreate(c)
        \/ VolSource(c)
        \/ VolClone(c)
        \/ VolResize(c)

VolumeSpecInit == VolumeInit /\ DomainIdle /\ AuxIdle

VolumeSpec == VolumeSpecInit /\ [][VolumeNext]_vars

-----------------------------------------------------------------------------
(* Calls of the functions of util.py: the argument is drawn by Init, the   *)
(* action is the call                                                      *)

MaxIndex == 18277

NoBuilder == DomainIdle /\ VolumeIdle

DriveNameInit ==
    /\ NoBuilder /\ UploadIdle /\ CreateIdle /\ BuildingIdle
    /\ util \in {[fn |-> "index_to_drive_name", pc |-> "call", idx |-> i,
                  name |-> None] : i \in 0..MaxIndex}

DriveName ==
    /\ util.fn = "index_to_drive_name"
    /\ util.pc = "call"
    /\ util' = [util EXCEPT !.pc = "done",
                            !.name = Some(index_to_drive_name(util.idx))]
    /\ UNCHANGED <<domainVars, volumeVars, upload, create, building>>

DriveNameNext == DriveName

DriveNameSpec == DriveNameInit /\ [][DriveNameNext]_vars

\* the texts given to human_size_units_to_bytes: a number, whitespace and a
\* unit, between a prefix and a tail that may be empty
SizePrefixes == {<<>>, <<" ">>, <<"-">>}

SizeNumbers ==
    {<<>>, <<"0">>, <<"1">>, <<"7">>, <<"1", "2">>, <<"0", "0", "7">>,
     <<"1", "2", "3", "4", "5">>}

SizeSpaces == {<<>>, <<" ">>, <<" ", " ">>, <<"\t">>, <<"\n">>}

SizeUnits ==
    UnitNames \cup
    {<<>>, <<"i">>, <<"K">>, <<"X", "B">>, <<"k", "b">>, <<"K", "I", "B">>,
     <<"K", "i", "b">>, <<"K", "B", "B", "B">>}

SizeTails == {<<>>, <<"\n">>, <<" ">>, <<"\n", "\n">>, <<".">>, <<"\n", "B">>}

SizeTexts ==
    {p \o n \o w \o u \o t :
        p \in SizePrefixes, n \in SizeNumbers, w \in SizeSpaces,
        u \in SizeUnits, t \in SizeTails}

SizeInit ==
    /\ NoBuilder /\ UploadIdle /\ CreateIdle /\ BuildingIdle
    /\ util \in {[fn |-> "human_size_units_to_bytes", pc |-> "call",
                  size |-> t, error |-> "none", value |-> None] :
                    t \in SizeTexts}

HumanSize ==
    /\ util.fn = "human_size_units_to_bytes"
    /\ util.pc = "call"
    /\ LET r == human_size_units_to_bytes(util.size)
       IN  util' = [util EXCEPT !.pc = "done", !.error = r.error,
                                !.value = r.value]
    /\ UNCHANGED <<domainVars, volumeVars, upload, create, building>>

SizeNext == HumanSize

SizeSpec == SizeInit /\ [][SizeNext]_vars

-----------------------------------------------------------------------------
(* Volume.upload.  The stream is the hypervisor's: once opened by           *)
(* volume.upload(stream, 0, size) it takes at most size bytes, a send that  *)
(* would go beyond them fails, and finish closes it whatever was sent.     *)

MaxSource == 5
MaxSize == 4
ChunkBytes == 2

\* the sources: byte k of a source is k, so that order shows
UploadSources == {[k \in 1..n |-> k] : n \in 0..MaxSource}

UploadCall(fp, size) ==
    [pc |-> "newStream", fp |-> fp, pos |-> 0, size |-> size,
     stream |-> None, calls |-> <<>>, error |-> "none"]

UploadInit ==
    /\ NoBuilder /\ UtilIdle /\ CreateIdle /\ BuildingIdle
    /\ upload \in {UploadCall(fp, size) :
                      fp \in UploadSources, size \in 1..MaxSize}

\* stream = self._conn.newStream(); self.volume.upload(stream, 0, size)
UploadOpen ==
    /\ upload.pc = "newStream"
    /\ upload' = [upload EXCEPT
          !.pc = "sendAll",
          !.stream = Some([offset |-> 0, length |-> upload.size,
                           data |-> <<>>, finished |-> FALSE]),
          !.calls = Append(@, [op |-> "upload", offset |-> 0,
                               length |-> upload.size])]
    /\ UNCHANGED <<domainVars, volumeVars, util, create, building>>

\* one round of stream.sendAll(handler, fp): handler returns fp.read(nbytes),
\* some bytes up to nbytes while the source has any and none at its end;
\* no bytes end the loop, else they are sent
UploadChunk ==
    /\ upload.pc = "sendAll"
    /\ LET left == Len(upload.fp) - upload.pos
           st   == upload.stream[1]
       IN  IF left = 0
           THEN upload' = [upload EXCEPT !.pc = "finish"]
           ELSE \E n \in 1..Min({ChunkBytes, left}) :
                  LET got == SubSeq(upload.fp, upload.pos + 1, upload.pos + n)
                  IN  IF Len(st.data) + n > st.length
                      THEN upload' = [upload EXCEPT
                              !.pc = "raised",
                              !.pos = @ + n,
                              !.error = "libvirtError",
                              !.calls = Append(@, [op |-> "send",
                                                   data |-> got])]
                      ELSE upload' = [upload EXCEPT
                              !.pos = @ + n,
                              !.stream = Some([st EXCEPT !.data = @ \o got]),
                              !.calls = Append(@, [op |-> "send",
                                                   data |-> got])]
    /\ UNCHANGED <<domainVars, volumeVars, util, create, building>>

\* stream.finish(), then upload returns
UploadFinish ==
    /\ upload.pc = "finish"
    /\ upload' = [upload EXCEPT
          !.pc = "returned",
          !.stream = Some([upload.stream[1] EXCEPT !.finished = TRUE]),
          !.calls = Append(@, [op |-> "finish"])]
    /\ UNCHANGED <<domainVars, volumeVars, util, create, building>>

UploadNext == UploadOpen \/ UploadChunk \/ UploadFinish

UploadSpec == UploadInit /\ [][UploadNext]_vars

-----------------------------------------------------------------------------
(* One DomainDefinition built from a template that has virtio-scsi         *)
(* controller entries; callers attach dir and rbd volumes                  *)

\* two empty virtio-scsi controllers, the one with the higher index first
TplTwoControllers ==
    <<TplController("virtio-scsi", Some(<<"1">>)),
      TplController("virtio-scsi", Some(<<"0">>))>>

\* two virtio-scsi controllers with disks on both, a controller of another
\* model between them
TplControllersInUse ==
    <<TplController("virtio-scsi", Some(<<"2">>)),
      TplDisk("scsi", <<"s", "d", "a">>, TplAddress(2, 0, 0, 0)),
      TplDisk("scsi", <<"s", "d", "b">>, TplAddress(2, 0, 0, 2)),
      TplController("lsilogic", Some(<<"1">>)),
      TplController("virtio-scsi", None),
      TplDisk("scsi", <<"s", "d", "c">>, TplAddress(0, 0, 0, 0))>>

ControllerTemplates ==
    {TplGaps, TplController3, TplControllerNoIndex, TplTwoControllers,
     TplControllersInUse}

ControllerInit == DomainInit(ControllerTemplates) /\ VolumeIdle /\ AuxIdle

ControllerNext ==
    \E a \in {x \in DiskArgs : x.volume \in {VolDir, VolRbd}},
       bus \in {DISK_BUS_VIRTIO, DISK_BUS_SCSI} : AddDisk(a, bus)

ControllerSpec == ControllerInit /\ [][ControllerNext]_vars

-----------------------------------------------------------------------------
(* add_disk, add_network_interface and add_bridge_interface statement by    *)
(* statement, for the states of the document inside a call.  An interface  *)
(* entry is the element tree the statements build: attrib is the set of   *)
(* <<name, value>> pairs set so far, children the sub-elements added so    *)
(* far.  building is the call in progress.                                 *)

Element(tag, attrib) == [tag |-> tag, attrib |-> attrib, children |-> <<>>]

\* ET.SubElement(parent, tag) followed by child.set(name, value)
WithChild(parent, tag, name, value) ==
    [parent EXCEPT !.children = Append(@, Element(tag, {<<name, value>>}))]

\* devs with its last entry, the interface being built, replaced
WithLast(devs, el) == [devs EXCEPT ![Len(devs)] = el]

BuildInit == DomainInit({TplEmpty, TplGaps}) /\ VolumeIdle /\ AuxIdle

\* add_disk up to, not including, its last statement: the disk element is
\* built on its own; _allocate_scsi_address may have appended a controller
DiskBuild(a, bus) ==
    /\ building = None
    /\ ncalls < MaxCalls
    /\ LET r == add_disk(devices, a.volume, bus, a.cache, a.discard,
                         a.boot_order)
       IN  /\ last' = [op |-> "add_disk", bus |-> bus, error |-> r.error,
                       dev |-> r.dev, address |-> r.address,
                       volume |-> Some(a.volume), interface |-> None]
           /\ IF r.error # "none"
              THEN /\ devices' = r.devices
                   /\ building' = None
              ELSE /\ devices' = SubSeq(r.devices, 1, Len(r.devices) - 1)
                   /\ building' = Some([op |-> "add_disk", pc |-> "append",
                                        disk_el |-> r.devices[Len(r.devices)]])
    /\ ncalls' = ncalls + 1
    /\ UNCHANGED <<basexml, domains, defineXMLCalls, ctor, domain_el>>
    /\ UNCHANGED <<volumeVars, util, upload, create>>

\* self._devices_el.append(disk_el)
DiskAppend ==
    /\ building # None
    /\ building[1].op = "add_disk"
    /\ devices' = Append(devices, building[1].disk_el)
    /\ building' = None
    /\ UNCHANGED <<basexml, domains, defineXMLCalls, ctor, domain_el, last,
                   ncalls>>
    /\ UNCHANGED <<volumeVars, util, upload, create>>

\* interface_el = ET.SubElement(self._devices_el, "interface")
InterfaceSubElement(i) ==
    /\ building = None
    /\ ncalls < MaxCalls
    /\ devices' = Append(devices, Element("interface", {}))
    /\ building' = Some([op |-> "add_interface", pc |-> "model", args |-> i])
    /\ last' = [NoCall EXCEPT !.op = "add_interface", !.interface = Some(i)]
    /\ ncalls' = ncalls + 1
    /\ UNCHANGED <<basexml, domains, defineXMLCalls, ctor, domain_el>>
    /\ UNCHANGED <<volumeVars, util, upload, create>>

\* the next statement of _add_generic_interface and of its caller: the model
\* element; the mtu, mac and boot elements that were asked for; the type
\* attribute; the source element
InterfaceStatement ==
    /\ building # None
    /\ building[1].op = "add_interface"
    /\ LET b  == building[1]
           i  == b.args
           el == devices[Len(devices)]
       IN  CASE b.pc = "model" ->
                  /\ devices' = WithLast(devices,
                        WithChild(el, "model", "type", i.model_type))
                  /\ building' = Some([b EXCEPT !.pc = "mtu"])
             [] b.pc = "mtu" ->
                  /\ devices' = IF i.mtu = None THEN devices
                                ELSE WithLast(devices,
                                        WithChild(el, "mtu", "size",
                                                  str(i.mtu[1])))
                  /\ building' = Some([b EXCEPT !.pc = "mac"])
             [] b.pc = "mac" ->
                  /\ devices' = IF i.mac_address = None THEN devices
                                ELSE WithLast(devices,
                                        WithChild(el, "mac", "address",
                                                  i.mac_address[1]))
                  /\ building' = Some([b EXCEPT !.pc = "boot"])
             [] b.pc = "boot" ->
                  /\ devices' = IF i.boot_order = None THEN devices
                                ELSE WithLast(devices,
                                        WithChild(el, "boot", "order",
                                                  str(i.boot_order[1])))
                  /\ building' = Some([b EXCEPT !.pc = "type"])
             [] b.pc = "type" ->
                  /\ devices' = WithLast(devices,
                        [el EXCEPT !.attrib = @ \cup {<<"type", i.kind>>}])
                  /\ building' = Some([b EXCEPT !.pc = "source"])
             [] b.pc = "source" ->
                  /\ devices' = WithLast(devices,
                        WithChild(el, "source", i.kind, i.source))
                  /\ building' = None
    /\ UNCHANGED <<basexml, domains, defineXMLCalls, ctor, domain_el, last,
                   ncalls>>
    /\ UNCHANGED <<volumeVars, util, upload, create>>

BuildNext ==
    \/ \E a \in {x \in DiskArgs : x.volume \in {VolDir, VolZfs}},
          bus \in {DISK_BUS_VIRTIO, DISK_BUS_SCSI} : DiskBuild(a, bus)
    \/ DiskAppend
    \/ \E i \in InterfaceArgs : InterfaceSubElement(i)
    \/ InterfaceStatement

BuildSpec == BuildInit /\ [][BuildNext]_vars

-----------------------------------------------------------------------------
(* One DomainDefinition on which add_disk calls fail in every way they     *)
(* can: callers pass every kind of volume and bus, on templates that are   *)
(* empty, lack a disk address or have one device name left                 *)

FailureTemplates ==
    {TplEmpty, TplNoAddress, TplForeignController, TplVirtioAlmostFull,
     TplScsiAlmostFull}

FailureInit == DomainInit(FailureTemplates) /\ VolumeIdle /\ AuxIdle

FailureNext ==
    \E a \in {x \in DiskArgs : x.volume # VolRbd}, bus \in Buses :
        AddDisk(a, bus)

FailureSpec == FailureInit /\ [][FailureNext]_vars

-----------------------------------------------------------------------------
(* cli.cmd_create: the --disk specs, as split by parse_spec into a preset  *)
(* name, a size text and key=value options, then the two loops over them:  *)
(* the first resolves the presets, the second creates a Volume for each    *)
(* disk and attaches it.  The calls made are recorded in create.           *)

MaxDisks == 3

\* the disk presets of the configuration
DiskPresets ==
    [local |-> [type |-> "volume", pool |-> "default", bus |-> "virtio",
                cache |-> "none"],
     fast  |-> [type |-> "volume", pool |-> "ssd", bus |-> "scsi",
                cache |-> "writeback"]]

NoOptions == [pool |-> None, bus |-> None, cache |-> None, boot_order |-> None]

DiskSpecs ==
    {[preset |-> "local", size |-> <<"1", "G", "i", "B">>,
      kwargs |-> NoOptions],
     [preset |-> "local", size |-> <<"2", "0", "4", "8">>,
      kwargs |-> [NoOptions EXCEPT !.bus = Some("scsi"),
                                   !.boot_order = Some(<<"1">>)]],
     [preset |-> "fast", size |-> <<"5", " ", "M", "B">>,
      kwargs |-> [NoOptions EXCEPT !.pool = Some("default"),
                                   !.cache = Some("none")]],
     [preset |-> "fast", size |-> <<"1", "k", "b">>, kwargs |-> NoOptions]}

\* --disk given one to MaxDisks times
DiskSpecLists ==
    UNION {[1..n -> DiskSpecs] : n \in 1..MaxDisks}

InstanceName == <<"v", "m">>

CreateInit ==
    /\ NoBuilder /\ UtilIdle /\ UploadIdle /\ BuildingIdle
    /\ create \in {[pc |-> "parse", name |-> InstanceName, specs |-> l,
                    disk |-> <<>>, disk_size |-> None, disks |-> <<>>,
                    volumes |-> <<>>, add_disks |-> <<>>] :
                      l \in DiskSpecLists}

\* parse_disk_spec on every --disk argument: args.disk holds
\* (preset name, size in bytes, options); a size that is turned down ends
\* the command
ParseDiskSpecs ==
    /\ create.pc = "parse"
    /\ LET size(k) == human_size_units_to_bytes(create.specs[k].size)
       IN  IF \E k \in DOMAIN create.specs : size(k).error # "none"
           THEN create' = [create EXCEPT !.pc = "error"]
           ELSE create' = [create EXCEPT
                   !.pc = "resolve",
                   !.disk = [k \in DOMAIN create.specs |->
                               [preset_name |-> create.specs[k].preset,
                                disk_size   |-> size(k).value,
                                kwargs      |-> create.specs[k].kwargs]]]
    /\ UNCHANGED <<domainVars, volumeVars, util, upload, building>>

\* one round of "for i, (preset_name, disk_size, kwargs) in
\* enumerate(args.disk)", or its end
ResolveDisk ==
    /\ create.pc = "resolve"
    /\ LET i == Len(create.disks)
       IN  IF i = Len(create.disk)
           THEN create' = [create EXCEPT !.pc = "volumes"]
           ELSE LET arg    == create.disk[i + 1]
                    preset == DiskPresets[arg.preset_name]
                    kw     == arg.kwargs
                    disk   ==
                        [type       |-> preset.type,
                         name       |-> create.name
                                        \o <<"-", "d", "i", "s", "k">>
                                        \o str(i),
                         size       |-> arg.disk_size,
                         pool       |-> IF kw.pool # None THEN kw.pool[1]
                                        ELSE preset.pool,
                         bus        |-> IF kw.bus # None THEN kw.bus[1]
                                        ELSE preset.bus,
                         cache      |-> IF kw.cache # None THEN kw.cache[1]
                                        ELSE preset.cache,
                         boot_order |-> IF kw.boot_order # None
                                        THEN Some(int(kw.boot_order[1]))
                                        ELSE None]
                IN  create' = [create EXCEPT
                        !.disk_size = arg.disk_size,
                        !.disks = Append(@, disk)]
    /\ UNCHANGED <<domainVars, volumeVars, util, upload, building>>

\* one round of "for disk in disks": Volume(disk["name"],
\* create_size_bytes=disk_size, ...) and d.add_disk(v, ...), or the end
CreateDiskVolume ==
    /\ create.pc = "volumes"
    /\ LET j == Len(create.volumes)
       IN  IF j = Len(create.disks)
           THEN create' = [create EXCEPT !.pc = "done"]
           ELSE LET disk == create.disks[j + 1]
                IN  create' = [create EXCEPT
                        !.volumes = Append(@,
                            [name              |-> disk.name,
                             create_size_bytes |-> create.disk_size,
                             pool_name         |-> disk.pool]),
                        !.add_disks = Append(@,
                            [volume     |-> disk.name,
                             bus        |-> disk.bus,
                             cache      |-> disk.cache,
                             boot_order |-> disk.boot_order])]
    /\ UNCHANGED <<domainVars, volumeVars, util, upload, building>>

CreateNext == ParseDiskSpecs \/ ResolveDisk \/ CreateDiskVolume

CreateSpec == CreateInit /\ [][CreateNext]_vars

-----------------------------------------------------------------------------
(* Properties of the builder *)

\* index in devices of the first entry added after construction
FirstAdded == Len(basexml) + 2

\* the disk entries of devs that sit on the bus, by index
DisksOnBus(devs, bus) == {i \in DOMAIN devs : IsDiskOnBus(devs[i], bus)}

\* every dev name carried by a disk of devs on the bus
DevNamesOnBus(devs, bus) ==
    {devs[i].target[1].dev[1] :
        i \in {j \in DisksOnBus(devs, bus) : devs[j].target[1].dev # None}}

\* the step is an add_disk call
IsAddDiskStep == ncalls' = ncalls + 1 /\ last'.op = "add_disk"

\* the add_disk call of the step got past the bus and volume checks
PassedVolumeChecks ==
    /\ last'.bus \in {DISK_BUS_VIRTIO, DISK_BUS_SCSI}
    /\ last'.error \notin {"UnsupportedVolumeTypeError",
                           "RuntimeError: Volume is missing path"}

\* C1: after any sequence of add_disk calls, successful or failed, no two
\* disk entries on the same target bus carry the same target dev name.
C1_UniqueDevNames ==
    \A i, j \in DOMAIN devices :
        ( /\ i < j
          /\ IsDisk(devices[i]) /\ IsDisk(devices[j])
          /\ devices[i].target # None /\ devices[j].target # None
          /\ devices[i].target[1].bus = devices[j].target[1].bus
          /\ devices[i].target[1].dev # None /\ devices[j].target[1].dev # None )
        => devices[i].target[1].dev # devices[j].target[1].dev

\* two disks added on one bus, and a failed call made after them
C1_Witness ==
    /\ last.op = "add_disk" /\ last.error # "none"
    /\ \E bus \in {DISK_BUS_VIRTIO, DISK_BUS_SCSI} :
          \E i, j \in DisksOnBus(devices, bus) : FirstAdded <= i /\ i < j

\* the complete drive addresses of the SCSI disks of devs, by index
AddressedScsiDisks(devs) ==
    {i \in DisksOnBus(devs, DISK_BUS_SCSI) :
        /\ DriveAddress(devs[i]) # None
        /\ AddressComplete(DriveAddress(devs[i])[1])}

\* C2: no two disks with target bus scsi have the same
\* (controller, bus, target, unit) address, whatever the base template.
C2_UniqueScsiAddresses ==
    \A i, j \in AddressedScsiDisks(devices) :
        i # j => AddressTuple(DriveAddress(devices[i])[1])
                 # AddressTuple(DriveAddress(devices[j])[1])

FirstNames == <<<<"a">>, <<"b">>, <<"c">>, <<"d">>, <<"e">>, <<"f">>>>

\* a successful add_disk names the disk prefix + drive_name(i) for the lowest
\* i below max_nr whose name no disk on that bus carries yet
C3_LowestUnused ==
    (IsAddDiskStep /\ last'.error = "none") =>
        LET bus    == last'.bus
            prefix == DISK_BUS_PROPERTIES[bus].dev_prefix
            used   == DevNamesOnBus(devices, bus)
        IN  /\ \E i \in 0..(DISK_BUS_PROPERTIES[bus].max_nr - 1) :
                  /\ last'.dev = Some(prefix \o index_to_drive_name(i))
                  /\ prefix \o index_to_drive_name(i) \notin used
                  /\ \A j \in 0..(i - 1) : prefix \o index_to_drive_name(j) \in used
            /\ devices'[Len(devices')].target = Some([dev |-> last'.dev, bus |-> bus])

\* starting from a document without disks, the k-th disk of each bus is
\* named <prefix>a, <prefix>b, <prefix>c, ... whatever was added on the other bus
C3_InCallOrder ==
    basexml = TplEmpty =>
        \A bus \in {DISK_BUS_VIRTIO, DISK_BUS_SCSI} :
            \A i \in DisksOnBus(devices, bus) :
                LET k == Cardinality({j \in DisksOnBus(devices, bus) : j <= i})
                IN  k <= Len(FirstNames) =>
                        devices[i].target[1].dev =
                            Some(DISK_BUS_PROPERTIES[bus].dev_prefix \o FirstNames[k])

\* C3: every successful add_disk on a bus assigns the lowest unused name of
\* that bus; from an empty document the names are vda, vdb, vdc, ... and
\* sda, sdb, ... in call order, independently of the other bus.
C3_LowestUnusedName == [][C3_LowestUnused]_vars /\ []C3_InCallOrder

\* vdb handed out after an scsi disk went in between, from an empty template
C3_Witness ==
    /\ basexml = TplEmpty
    /\ last.error = "none" /\ last.dev = Some(<<"v", "d", "b">>)
    /\ DisksOnBus(devices, DISK_BUS_SCSI) # {}

NoScsiEntries(devs) ==
    /\ DisksOnBus(devs, DISK_BUS_SCSI) = {}
    /\ {i \in DOMAIN devs : devs[i].tag = "controller" /\ devs[i].type = "scsi"} = {}

\* C4: from a template without SCSI disks and controllers the first scsi
\* add_disk creates one virtio-scsi controller of index 0 and takes 0/0/0/0,
\* the second takes unit 1 without another controller, and the k-th disk
\* takes a tuple no earlier disk has (unit k-1 of controller 0).
C4_FirstScsiAddresses ==
    NoScsiEntries(basexml) =>
        LET disks == DisksOnBus(devices, DISK_BUS_SCSI)
            ctrls == {i \in DOMAIN devices : devices[i].tag = "controller"}
        IN  /\ disks = {} => ctrls = {}
            /\ disks # {} =>
                  /\ Cardinality(ctrls) = 1
                  /\ \A c \in ctrls :
                        /\ devices[c] = [tag |-> "controller", type |-> "scsi",
                                         model |-> "virtio-scsi",
                                         index |-> Some(<<"0">>)]
                        /\ \A i \in disks : c < i
            /\ \A i \in disks :
                  LET k == Cardinality({j \in disks : j <= i})
                  IN  /\ devices[i].address # None
                      /\ devices[i].address[1].type = "drive"
                      /\ AddressTuple(devices[i].address[1]) = <<0, 0, 0, k - 1>>
                      /\ k = 1 => devices[i].address[1].unit = Some(<<"0">>)
                      /\ k = 2 => devices[i].address[1].unit = Some(<<"1">>)

\* three SCSI disks added to the empty template
C4_Witness ==
    /\ basexml = TplEmpty
    /\ Cardinality(DisksOnBus(devices, DISK_BUS_SCSI)) = 3

AllNamesUsed(devs, bus) ==
    LET used == DevNamesOnBus(devs, bus)
    IN  \A n \in 0..(DISK_BUS_PROPERTIES[bus].max_nr - 1) :
            DISK_BUS_PROPERTIES[bus].dev_prefix \o index_to_drive_name(n) \in used

\* an add_disk on a bus whose names are all taken fails with the exhaustion
\* error and adds nothing; a successful one never hands out a name in use
C5_FailsWhenFull ==
    (IsAddDiskStep /\ PassedVolumeChecks) =>
        /\ AllNamesUsed(devices, last'.bus) =>
              /\ last'.error = "RuntimeError: All possible disk devices are already used"
              /\ devices' = devices
        /\ last'.error = "none" =>
              last'.dev[1] \notin DevNamesOnBus(devices, last'.bus)

\* every name add_disk handed out is one of the max_nr names of its bus
C5_WithinMaximum ==
    \A bus \in {DISK_BUS_VIRTIO, DISK_BUS_SCSI} :
        \A i \in DisksOnBus(devices, bus) :
            i >= FirstAdded =>
                \E n \in 0..(DISK_BUS_PROPERTIES[bus].max_nr - 1) :
                    devices[i].target[1].dev =
                        Some(DISK_BUS_PROPERTIES[bus].dev_prefix
                             \o index_to_drive_name(n))

\* C5: with all 32 virtio (1024 scsi) names in use a further add_disk on that
\* bus fails with the exhaustion error; no name is re-issued and none lies
\* beyond the bus maximum.
C5_ExhaustionFails == [][C5_FailsWhenFull]_vars /\ []C5_WithinMaximum

\* the 1025th scsi name was asked for and refused
C5_Witness ==
    /\ last.op = "add_disk" /\ last.bus = DISK_BUS_SCSI
    /\ last.error = "RuntimeError: All possible disk devices are already used"
    /\ Cardinality(DevNamesOnBus(devices, DISK_BUS_SCSI)) = ScsiMaxNr

\* C6: define() is terminal: once it has returned, no later call takes
\* effect, so defineXML is invoked at most once and the document is never
\* mutated after it was submitted.
C6_DefineIsTerminal ==
    [][defineXMLCalls > 0 =>
          (devices' = devices /\ defineXMLCalls' = defineXMLCalls)]_vars

-----------------------------------------------------------------------------
(* Properties of Volume.__init__ *)

\* the smallest multiple of 1 MiB that is >= s
RoundedUp(s) ==
    CHOOSE m \in {k * MiB : k \in 0..((s \div MiB) + 1)} : m >= s /\ m - s < MiB

SameTarget(c, d) ==
    args[c].name = args[d].name /\ args[c].pool_name = args[d].pool_name

\* C7: a volume newly created without a source has capacity and allocation
\* equal to the smallest multiple of 2^20 that is >= the requested size:
\* 16777216 stays 16777216, 16777210 becomes 16777216.
C7_AlignedCapacity ==
    \A c \in Callers :
        ( /\ pc[c] = "done" /\ result[c] = "ok"
          /\ args[c].source_name = None
          /\ ~loc[c].listed ) =>
        LET v   == pools.objects[loc[c].volume[1]]
            s   == args[c].create_size_bytes
            cap == int(v.capacity)
        IN  /\ v.name = args[c].name
            /\ cap % MiB = 0 /\ cap >= s /\ cap - s < MiB
            /\ v.allocation = v.capacity
            /\ s \in {16777210, 16777216} =>
                  v.capacity = <<"1", "6", "7", "7", "7", "2", "1", "6">>

\* a blank volume was created for a request of 16777210 bytes
C7_Witness ==
    \E c \in Callers :
        /\ pc[c] = "done" /\ result[c] = "ok"
        /\ args[c].source_name = None /\ ~loc[c].listed
        /\ args[c].create_size_bytes = 16777210
        /\ hvcalls[c].createXML = 1

\* the constructor step that finds the name in the pool ends the call
\* without touching the pool
C8_ExistingStep ==
    \A c \in Callers :
        ( /\ pc[c] = "start" /\ pc'[c] # "start"
          /\ pools.volumes[args[c].pool_name][args[c].name] # None ) =>
        /\ pc'[c] = "done"
        /\ pools' = pools
        /\ hvcalls'[c] = NoCalls
        /\ IF args[c].exist_ok
           THEN /\ result'[c] = "ok"
                /\ loc'[c].volume = pools.volumes[args[c].pool_name][args[c].name]
           ELSE result'[c] = "VolumeAlreadyExistsError"

\* a caller that met an existing name has issued no create, clone or resize
C8_NoCalls ==
    \A c \in Callers :
        (result[c] = "VolumeAlreadyExistsError" \/ loc[c].listed) =>
            pc[c] = "done" /\ hvcalls[c] = NoCalls

\* C8: constructing a Volume whose name exists in the pool fails with
\* VolumeAlreadyExistsError without exist_ok and binds to the existing
\* volume with it; either way no create, clone or resize call is issued
\* and the pool is unchanged.
C8_ExistingVolume == [][C8_ExistingStep]_vars /\ []C8_NoCalls

\* one caller was refused and another bound to the existing volume
C8_Witness ==
    \E c, d \in Callers :
        /\ result[c] = "VolumeAlreadyExistsError"
        /\ result[d] = "ok" /\ loc[d].listed /\ args[d].exist_ok
        /\ loc[d].volume # None

\* C9: of two callers constructing the same name in the same pool without
\* exist_ok, at most one creates the volume and the other fails with
\* VolumeAlreadyExistsError, under every interleaving.
C9_CollisionIsTyped ==
    \A c, d \in Callers :
        ( /\ c # d /\ SameTarget(c, d)
          /\ ~args[c].exist_ok /\ ~args[d].exist_ok
          /\ pc[c] = "done" /\ pc[d] = "done"
          /\ result[c] # "SourceVolumeTooBigError"
          /\ result[d] # "SourceVolumeTooBigError" ) =>
        /\ ~(result[c] = "ok" /\ result[d] = "ok")
        /\ result[c] # "ok" => result[c] = "VolumeAlreadyExistsError"

\* C10: a source whose capacity exceeds the aligned target size is refused
\* with SourceVolumeTooBigError before anything is cloned, so no volume of
\* the target name exists afterwards; a source of exactly the aligned
\* target size is accepted.
C10_SourceTooBig ==
    \A c \in Callers :
        (args[c].source_name # None /\ loc[c].source_volume # None) =>
        LET capacity == int(pools.objects[loc[c].source_volume[1]].capacity)
            target   == RoundedUp(args[c].create_size_bytes)
        IN  /\ result[c] = "SourceVolumeTooBigError" <=> capacity > target
            /\ result[c] = "SourceVolumeTooBigError" =>
                  /\ pc[c] = "done"
                  /\ hvcalls[c] = NoCalls
                  /\ (\A d \in Callers \ {c} : ~SameTarget(c, d)) =>
                        pools.volumes[args[c].pool_name][args[c].name] = None

\* one caller was refused for a 32 MiB source, another cloned a source of
\* exactly its aligned target size
C10_Witness ==
    \E c, d \in Callers :
        /\ result[c] = "SourceVolumeTooBigError"
        /\ args[c].create_size_bytes = 16 * MiB - 6
        /\ result[d] = "ok" /\ hvcalls[d].createXMLFrom = 1
        /\ loc[d].source_volume_capacity = loc[d].volume_size_bytes

\* the pool a caller's source volume is looked up in
SourcePool(c) ==
    IF args[c].source_pool_name # None
    THEN args[c].source_pool_name[1] ELSE args[c].pool_name

\* C11: a Volume constructed from a source (found in source_pool_name when
\* given, else in the target pool) is cloned first and then resized to the
\* aligned target size with the allocate flag if and only if the source
\* capacity is strictly smaller than the aligned target size; on success
\* the new volume's capacity is the aligned target size, whether the source
\* was smaller or equal.
C11_CloneThenGrow ==
    \A c \in Callers :
        /\ hvcalls[c].resize > 0 => hvcalls[c].createXMLFrom = 1
        /\ ( /\ pc[c] = "done" /\ result[c] = "ok"
             /\ args[c].source_name # None /\ ~loc[c].listed ) =>
           LET target == RoundedUp(args[c].create_size_bytes)
               source == pools.volumes[SourcePool(c)][args[c].source_name[1]]
               srccap == int(pools.objects[source[1]].capacity)
               v      == pools.objects[loc[c].volume[1]]
           IN  /\ loc[c].source_volume = source
               /\ hvcalls[c].createXMLFrom = 1 /\ hvcalls[c].createXML = 0
               /\ hvcalls[c].resize = (IF srccap < target THEN 1 ELSE 0)
               /\ hvcalls[c].resize_args =
                     (IF srccap < target
                      THEN Some(<<target, VIR_STORAGE_VOL_RESIZE_ALLOCATE>>)
                      ELSE None)
               /\ v.name = args[c].name
               /\ int(v.capacity) = target

\* one caller grew a clone of a 1 MiB source found in the target pool,
\* another cloned a source of exactly its target size from source_pool_name
C11_Witness ==
    \E c, d \in Callers :
        /\ pc[c] = "done" /\ result[c] = "ok" /\ hvcalls[c].resize = 1
        /\ args[c].source_pool_name = None
        /\ loc[c].source_volume_capacity = MiB
        /\ args[c].create_size_bytes = 16 * MiB - 6
        /\ pc[d] = "done" /\ result[d] = "ok"
        /\ hvcalls[d].createXMLFrom = 1 /\ hvcalls[d].resize = 0
        /\ args[d].source_pool_name # None

-----------------------------------------------------------------------------
(* Properties of DomainDefinition.__init__ *)

\* the constructor has returned or raised
Constructed == ctor.phase \in {"built", "failed"}

Built == ctor.phase = "built"

\* the elements with a tag among a sequence of children
ElementsOf(children, tag) ==
    SelectSeq(children, LAMBDA e : e.tag = tag)

\* the text of ./devices/emulator in the builder's document
DevicesEmulatorText == ElementsOf(devices, "emulator")[1].text

\* the architecture the caller asked for: arch_name, else the host's
RequestedArch ==
    IF ctor.args.arch_name # None THEN ctor.args.arch_name
    ELSE IF ctor.caps.host_arch = None THEN None
    ELSE ctor.caps.host_arch[1]

\* the arch blocks of hvm guests named like the requested architecture
HvmArchBlocks ==
    {ctor.caps.guests[g].archs[x] :
        <<g, x>> \in {<<g, x>> \in (1..3) \X (1..3) :
                        /\ g \in DOMAIN ctor.caps.guests
                        /\ x \in DOMAIN ctor.caps.guests[g].archs
                        /\ ctor.caps.guests[g].os_type = <<"hvm">>
                        /\ <<ctor.caps.guests[g].archs[x].name>> = RequestedArch}}

\* the block has a sub-block of the requested domain type, and the machine
\* is listed under such a sub-block or at architecture level
Supports(block) ==
    /\ \E i \in DOMAIN block.domains : block.domains[i].type = ctor.args.domain_type
    /\ \/ \E k \in DOMAIN block.machines : block.machines[k] = ctor.args.machine
       \/ \E i \in DOMAIN block.domains :
             /\ block.domains[i].type = ctor.args.domain_type
             /\ \E k \in DOMAIN block.domains[i].machines :
                   block.domains[i].machines[k] = ctor.args.machine

\* the emulator paths of the block's sub-blocks of the requested domain type
DomainEmulators(block) ==
    {block.domains[i].emulator[1][1] :
        i \in {j \in DOMAIN block.domains :
                  /\ block.domains[j].type = ctor.args.domain_type
                  /\ block.domains[j].emulator # <<>>
                  /\ block.domains[j].emulator[1] # <<>>}}

\* C12: when the hvm guest's arch block for the architecture has an
\* architecture-level emulator and a sub-block of the requested domain type
\* with its own emulator, and the machine is listed under that sub-block or
\* at architecture level, the emulator written to devices/emulator is the
\* sub-block's, never the architecture-level one; on the mock's
\* capabilities kvm/x86_64/pc gives /usr/bin/qemu-kvm.
C12_DomainEmulatorWins ==
    (Constructed /\ ctor.base.tag = "domain") =>
        /\ \A block \in HvmArchBlocks :
              ( /\ Supports(block)
                /\ block.emulator # <<>> /\ block.emulator[1] # <<>>
                /\ DomainEmulators(block) # {} ) =>
              /\ Built
              /\ DevicesEmulatorText \in DomainEmulators(block)
              /\ DevicesEmulatorText # block.emulator[1][1]
        /\ ( /\ ctor.caps = CapsMock /\ RequestedArch = <<"x86_64">>
             /\ ctor.args.domain_type = "kvm" /\ ctor.args.machine = "pc" ) =>
           Built /\ DevicesEmulatorText = "/usr/bin/qemu-kvm"

\* built on the mock's capabilities for kvm/x86_64/pc, pc being listed at
\* architecture level only
C12_Witness ==
    /\ Built /\ ctor.caps = CapsMock /\ ctor.args.arch_name = <<"x86_64">>
    /\ ctor.args.domain_type = "kvm" /\ ctor.args.machine = "pc"
    /\ DevicesEmulatorText = "/usr/bin/qemu-kvm"

UnsuitableError ==
    "RuntimeError: Unable to find a suitable guest architecture in capabilities"

\* C13: construction fails, and no builder is produced, whenever no hvm
\* guest arch block matches the architecture, has a sub-block of the
\* requested domain type and lists the machine at architecture level or
\* under that sub-block: an unknown arch, an unknown machine, an
\* unsupported domain type and a machine listed only under another domain
\* type's sub-block each fail.
C13_NoSuitableArchFails ==
    Constructed =>
        /\ (\A block \in HvmArchBlocks : ~Supports(block)) =>
              ctor.phase = "failed" /\ ctor.error # "none" /\ domain_el = None
        /\ ( /\ ctor.caps = CapsMock
             /\ \/ ctor.args.arch_name = <<"INVALID">>
                \/ ctor.args.machine = "INVALID"
                \/ ctor.args.domain_type = "xen"
                \/ ctor.args.domain_type = "kvm" /\ ctor.args.machine = "pc-i440fx-6.1" ) =>
           ctor.phase = "failed" /\ ctor.error = UnsuitableError

\* kvm was asked for with a machine listed only under the qemu sub-block
C13_Witness ==
    /\ ctor.phase = "failed" /\ ctor.error = UnsuitableError
    /\ ctor.caps = CapsMock /\ ctor.args.arch_name = <<"x86_64">>
    /\ ctor.args.domain_type = "kvm" /\ ctor.args.machine = "pc-i440fx-6.1"

\* the arch attribute of ./os/type in the builder's document
OsTypeArch ==
    ElementsOf(ElementsOf(domain_el[1].children, "os")[1].children,
               "type")[1].arch

\* C14: a caller-supplied arch_name is the value written to os/type@arch
\* whatever the host architecture is; without one the host architecture of
\* the capabilities is written; when neither is available construction
\* fails with the architecture-unresolved error, not with an emulator
\* resolution error.
C14_ArchResolution ==
    (Constructed /\ ctor.base.tag = "domain") =>
        /\ (Built /\ ctor.args.arch_name # <<>>) =>
              OsTypeArch = ctor.args.arch_name[1]
        /\ ( /\ Built /\ ctor.args.arch_name = <<>> ) =>
              /\ ctor.caps.host_arch # <<>>
              /\ OsTypeArch = ctor.caps.host_arch[1][1]
        /\ ( /\ ctor.args.arch_name = <<>>
             /\ \/ ctor.caps.host_arch = <<>>
                \/ ctor.caps.host_arch[1] = <<>> ) =>
              /\ ctor.phase = "failed"
              /\ ctor.error = "RuntimeError: Unable to get target arch name"

\* built for x86_64 on an aarch64 host
C14_Witness ==
    /\ Built /\ ctor.args.arch_name = <<"x86_64">>
    /\ ctor.caps.host_arch = <<<<"aarch64">>>>
    /\ OsTypeArch = "x86_64"

\* the cpu elements of the builder's document
CpuElements == ElementsOf(domain_el[1].children, "cpu")

\* C15: with a cpu_model the cpu element has mode='custom', match='exact'
\* and check='partial', and a model element with fallback='allow' whose
\* text is the model name.
C15_CustomCpu ==
    (Built /\ ctor.args.cpu_model # <<>>) =>
        \E i \in DOMAIN CpuElements :
            LET cpu_el == CpuElements[i]
            IN  /\ DOMAIN cpu_el.attrib = {"mode", "match", "check"}
                /\ cpu_el.attrib.mode = "custom"
                /\ cpu_el.attrib.match = "exact"
                /\ cpu_el.attrib.check = "partial"
                /\ Len(cpu_el.children) = 1
                /\ cpu_el.children[1].tag = "model"
                /\ cpu_el.children[1].fallback = "allow"
                /\ cpu_el.children[1].text = ctor.args.cpu_model[1]

\* C16: without a cpu_model a cpu element of the template is left unchanged
\* and a host-passthrough one is created only when the template has none;
\* with a cpu_model the existing cpu element is removed and replaced by the
\* custom one; the document ends with exactly one cpu element.
C16_CpuPrecedence ==
    Built =>
        LET template == ElementsOf(ctor.base.children, "cpu")
        IN  /\ Len(CpuElements) = 1
            /\ IF ctor.args.cpu_model = <<>>
               THEN IF template # <<>>
                    THEN CpuElements = template
                    ELSE /\ CpuElements[1].attrib.mode = "host-passthrough"
                         /\ CpuElements[1].children = <<>>
               ELSE /\ CpuElements[1].attrib.mode = "custom"
                    /\ CpuElements[1].children[1].text = ctor.args.cpu_model[1]

\* C17: after construction and after any add_* calls the document has
\* exactly one name, one memory and one vcpu element, and the name, memory
\* and vcpu accessors return the constructor's name, ram_bytes and vcpus,
\* also for templates that hold such elements, possibly several of a kind.
C17_Identity ==
    Built =>
        LET el == Document(domain_el[1], devices)
        IN  /\ Len(ElementsOf(el.children, "name")) = 1
            /\ Len(ElementsOf(el.children, "memory")) = 1
            /\ Len(ElementsOf(el.children, "vcpu")) = 1
            /\ NameProperty(el) = ctor.args.name
            /\ MemoryProperty(el) = ctor.args.ram_bytes
            /\ VcpuProperty(el) = ctor.args.vcpus

\* C18: after construction from any template and after any add_* calls the
\* document has exactly one devices container with exactly one emulator
\* element under it, whose value is the resolved emulator.
C18_OneEmulator ==
    Built =>
        LET el == Document(domain_el[1], devices)
            containers == ElementsOf(el.children, "devices")
        IN  /\ Len(containers) = 1
            /\ containers[1].children = devices
            /\ Len(ElementsOf(devices, "emulator")) = 1
            /\ ctor.caps = CapsMock /\ ctor.args.domain_type = "kvm" =>
                  DevicesEmulatorText = "/usr/bin/qemu-kvm"

-----------------------------------------------------------------------------
(* Properties of add_disk's argument checks *)

\* C19: add_disk with a bus other than virtio and scsi fails with
\* UnsupportedBusError for every volume, also one of an unsupported pool
\* type, and adds no disk or controller entry to the document.
C19_UnsupportedBus ==
    [][(IsAddDiskStep /\ last'.bus \notin {"virtio", "scsi"}) =>
          /\ last'.error = "UnsupportedBusError"
          /\ devices' = devices]_vars

\* a volume of an unsupported pool type was refused for its bus
C19_Witness ==
    /\ last.op = "add_disk" /\ last.bus = "ide"
    /\ last.volume # <<>> /\ last.volume[1].pool_type = "zfs"
    /\ last.error = "UnsupportedBusError"

\* C20: on a supported bus the pool-type tag alone decides the disk entry:
\* dir and logical give a disk of type volume whose source names the pool
\* and the volume; rbd gives a disk of type network with protocol rbd, the
\* volume's path as source name and the pool's hosts and auth, or a
\* RuntimeError when the volume has no target path; any other tag fails
\* with UnsupportedVolumeTypeError.
C20_DiskKind ==
    [][(IsAddDiskStep /\ last'.bus \in {"virtio", "scsi"}) =>
          LET volume  == last'.volume[1]
              disk_el == devices'[Len(devices')]
          IN  IF volume.pool_type \in {"dir", "logical"}
              THEN /\ last'.error = "none"
                   /\ disk_el.tag = "disk" /\ disk_el.type = "volume"
                   /\ disk_el.source = [pool   |-> volume.pool_name,
                                        volume |-> volume.name]
              ELSE IF volume.pool_type = "rbd"
              THEN IF volume.path = <<>>
                   THEN /\ last'.error = "RuntimeError: Volume is missing path"
                        /\ devices' = devices
                   ELSE /\ last'.error = "none"
                        /\ disk_el.tag = "disk" /\ disk_el.type = "network"
                        /\ disk_el.source.protocol = "rbd"
                        /\ disk_el.source.name = volume.path[1]
                        /\ volume = VolRbd =>
                              /\ disk_el.source.hosts =
                                    <<[name |-> <<"mon1">>, port |-> <<>>]>>
                              /\ disk_el.source.auth =
                                    <<[username |-> "libvirt",
                                       secret |-> [type |-> "ceph",
                                                   uuid |-> "89890794"]]>>
              ELSE /\ last'.error = "UnsupportedVolumeTypeError"
                   /\ devices' = devices]_vars

\* an rbd volume and a logical volume were attached
C20_Witness ==
    /\ last.op = "add_disk" /\ last.error = "none"
    /\ last.volume[1].pool_type = "rbd"
    /\ devices[Len(devices)].type = "network"
    /\ \E i \in DOMAIN devices :
          /\ devices[i].tag = "disk" /\ devices[i].type = "volume"
          /\ devices[i].source = [pool |-> "scratch", volume |-> "vm-disk1"]

-----------------------------------------------------------------------------
(* Properties of util.py *)

LetterPos(c) == CHOOSE v \in 1..26 : ascii_lowercase[v] = c

\* the index a name stands for in bijective base 26 (a = 0, z = 25, aa = 26)
RECURSIVE DriveIndexLoop(_, _, _)
DriveIndexLoop(name, i, acc) ==
    IF i > Len(name) THEN acc - 1
    ELSE DriveIndexLoop(name, i + 1, acc * 26 + LetterPos(name[i]))

DriveIndex(name) == DriveIndexLoop(name, 1, 0)

\* the name after a name, shorter names first and alphabetically within a
\* length: a, b, ..., z, aa, ab, ...
RECURSIVE NextName(_)
NextName(s) ==
    IF s = <<>> THEN <<"a">>
    ELSE LET front == SubSeq(s, 1, Len(s) - 1)
         IN  IF s[Len(s)] = "z" THEN NextName(front) \o <<"a">>
             ELSE Append(front, ascii_lowercase[LetterPos(s[Len(s)]) + 1])

DriveNameExamples ==
    { <<0, <<"a">> >>, <<1, <<"b">> >>, <<25, <<"z">> >>,
      <<26, <<"a", "a">> >>, <<701, <<"z", "z">> >>,
      <<702, <<"a", "a", "a">> >>, <<1403, <<"b", "a", "z">> >>,
      <<18277, <<"z", "z", "z">> >> }

DriveNameDone == util.fn = "index_to_drive_name" /\ util.pc = "done"

\* C21: index_to_drive_name returns, for every index i >= 0, a non-empty
\* lowercase name from which i is recovered (so two indexes never share a
\* name); index 0 gives "a" and index i + 1 gives the name that follows the
\* name of i (so every non-empty lowercase string is the name of exactly one
\* index); 0->a, 1->b, 25->z, 26->aa, 701->zz, 702->aaa, 1403->baz,
\* 18277->zzz.
C21_DriveNameBijection ==
    DriveNameDone =>
        LET name == util.name[1]
        IN  /\ Len(name) >= 1
            /\ \A k \in 1..Len(name) :
                  \E v \in 1..26 : ascii_lowercase[v] = name[k]
            /\ DriveIndex(name) = util.idx
            /\ name = IF util.idx = 0 THEN <<"a">>
                      ELSE NextName(index_to_drive_name(util.idx - 1))
            /\ \A ex \in DriveNameExamples : util.idx = ex[1] => name = ex[2]

C21_Witness ==
    /\ DriveNameDone
    /\ util.idx = 18277
    /\ util.name = Some(<<"z", "z", "z">>)


SizeDone == util.fn = "human_size_units_to_bytes" /\ util.pc = "done"

\* the ways a text is a number, optional whitespace and an optional unit of
\* one to three unit characters, and nothing else
Shapes(text) ==
    { sh \in [i : 1..Len(text), j : 1..Len(text)] :
        /\ sh.i <= sh.j /\ Len(text) - sh.j <= 3
        /\ \A x \in 1..sh.i : IsDigitChar(text[x])
        /\ \A x \in (sh.i + 1)..sh.j : text[x] \in Whitespace
        /\ \A x \in (sh.j + 1)..Len(text) : text[x] \in UnitChars }

WellShaped(text) == Shapes(text) # {}

ShapeOf(text) ==
    CHOOSE sh \in Shapes(text) : \A o \in Shapes(text) : o.i <= sh.i

ShapeNumber(text) == SubSeq(text, 1, ShapeOf(text).i)

ShapeUnit(text) == SubSeq(text, ShapeOf(text).j + 1, Len(text))

\* the powers of 1000 and of 1024 of the unit table
UnitPower(unit) ==
    CASE unit \in {<<>>, <<"B">>}                     -> 0
      [] unit \in {<<"K", "B">>, <<"K", "i", "B">>}   -> 1
      [] unit \in {<<"M", "B">>, <<"M", "i", "B">>}   -> 2
      [] unit \in {<<"G", "B">>, <<"G", "i", "B">>}   -> 3
      [] unit \in {<<"T", "B">>, <<"T", "i", "B">>}   -> 4
      [] unit \in {<<"P", "B">>, <<"P", "i", "B">>}   -> 5

UnitBase(unit) == IF Len(unit) = 3 THEN 1024 ELSE 1000

InUnitTable(unit) == unit = <<>> \/ unit \in UnitNames

ExpectedBytes(text) ==
    TimesPower(StripZeros(ShapeNumber(text)), UnitBase(ShapeUnit(text)),
               UnitPower(ShapeUnit(text)))

SizeExamples ==
    { << <<"1", "2", "3", "4", "5">>, <<"1", "2", "3", "4", "5">> >>,
      << <<"1", "2", "3", "4", "5", " ", " ", "B">>,
         <<"1", "2", "3", "4", "5">> >>,
      << <<"1", "2", "3", "4", "5", "K", "B">>,
         <<"1", "2", "3", "4", "5", "0", "0", "0">> >>,
      << <<"1", "2", "3", "4", "5", "K", "i", "B">>,
         <<"1", "2", "6", "4", "1", "2", "8", "0">> >>,
      << <<"1", "P", "i", "B">>,
         <<"1", "1", "2", "5", "8", "9", "9", "9", "0", "6", "8", "4", "2",
           "6", "2", "4">> >>,
      << <<"7", "T", "B">>,
         <<"7", "0", "0", "0", "0", "0", "0", "0", "0", "0", "0", "0",
           "0">> >> }

SizeAsClaimed ==
    LET text == util.size
    IN  /\ ~WellShaped(text) => util.error = "Invalid value"
        /\ WellShaped(text) /\ ~InUnitTable(ShapeUnit(text)) =>
              util.error = "Unit is not supported"
        /\ WellShaped(text) /\ InUnitTable(ShapeUnit(text)) =>
              /\ util.error = "none"
              /\ util.value = Some(ExpectedBytes(text))
        /\ \A ex \in SizeExamples :
              text = ex[1] => util.value = Some(ex[2])

\* C22: human_size_units_to_bytes returns number * multiplier for a
\* non-negative integer optionally followed, after optional whitespace, by a
\* unit of the table (none or B = 1, KB..PB = powers of 1000, KiB..PiB =
\* powers of 1024); a text that is not of that shape fails with the invalid
\* value error and a text of that shape whose unit is not in the table fails
\* with the unsupported unit error.
C22_SizeConversion == SizeDone => SizeAsClaimed

\* a text of the shape with a unit, followed by one newline
UnitThenNewline(text) ==
    /\ Len(text) > 0
    /\ text[Len(text)] = "\n"
    /\ WellShaped(SubSeq(text, 1, Len(text) - 1))
    /\ ShapeUnit(SubSeq(text, 1, Len(text) - 1)) # <<>>

\* the same for every text but those
C22_ExceptUnitThenNewline ==
    SizeDone /\ ~UnitThenNewline(util.size) => SizeAsClaimed

\* "1KB" followed by a newline is converted to 1000
C22_NewlineAccepted ==
    /\ SizeDone
    /\ util.size = <<"1", "K", "B", "\n">>
    /\ util.error = "none"
    /\ util.value = Some(<<"1", "0", "0", "0">>)

-----------------------------------------------------------------------------
(* Properties of Volume.upload *)

Returned == upload.pc = "returned"

\* the bytes the calls sent, in call order
RECURSIVE SentBytes(_)
SentBytes(calls) ==
    IF calls = <<>> THEN <<>>
    ELSE LET c == calls[Len(calls)]
             before == SentBytes(SubSeq(calls, 1, Len(calls) - 1))
         IN  IF c.op = "send" THEN before \o c.data ELSE before

\* the stream was opened first, at offset 0 for size bytes, then only chunks
\* were sent, then it was finished, and what it holds is what was sent
UploadOrder ==
    LET calls == upload.calls
    IN  /\ Len(calls) >= 2
        /\ calls[1] = [op |-> "upload", offset |-> 0, length |-> upload.size]
        /\ calls[Len(calls)] = [op |-> "finish"]
        /\ \A k \in 2..(Len(calls) - 1) : calls[k].op = "send"
        /\ upload.stream[1].data = SentBytes(calls)
        /\ upload.stream[1].finished

\* C23: upload(fp, size) opens the stream at offset 0 for exactly size
\* bytes, then sends the chunks read from fp in order, then finishes the
\* stream; when it returns, exactly size bytes, the first size bytes of fp in
\* order, have been written, so a source of fewer or more than size bytes
\* does not make it return.
C23_UploadExact ==
    Returned =>
        /\ UploadOrder
        /\ Len(upload.stream[1].data) = upload.size
        /\ Len(upload.fp) >= upload.size
        /\ upload.stream[1].data = SubSeq(upload.fp, 1, upload.size)
        /\ Len(upload.fp) = upload.size

\* what upload does ensure: the calls are in that order and, when it
\* returns, the whole source has been written in order and is not longer
\* than size
C23_OrderAndWholeSource ==
    /\ Returned =>
          /\ UploadOrder
          /\ upload.stream[1].data = upload.fp
          /\ Len(upload.fp) <= upload.size
    /\ upload.pc = "raised" => Len(upload.fp) > upload.size

\* a source of two bytes uploaded with size 3 returns with two bytes written
C23_ShortUploadReturns ==
    /\ Returned
    /\ upload.size = 3
    /\ upload.fp = <<1, 2>>
    /\ upload.stream[1].data = <<1, 2>>

-----------------------------------------------------------------------------
(* Properties of add_network_interface / add_bridge_interface *)

IsAddInterfaceStep == ncalls' = ncalls + 1 /\ last'.op = "add_interface"

\* the entry is the interface the call asked for: its type and source, the
\* model type, and mtu, mac and boot exactly when they were given
IsRequestedInterface(el, i) ==
    /\ el.tag = "interface"
    /\ el.type = i.kind
    /\ el.source = IF i.kind = "bridge" THEN [bridge |-> i.source]
                   ELSE [network |-> i.source]
    /\ el.model = [type |-> i.model_type]
    /\ el.mtu = (IF i.mtu = None THEN None ELSE Some(str(i.mtu[1])))
    /\ el.mac = i.mac_address
    /\ el.boot = (IF i.boot_order = None THEN None
                  ELSE Some(str(i.boot_order[1])))

InterfacesOf(devs) == {k \in DOMAIN devs : devs[k].tag = "interface"}

\* C24: every add_network_interface / add_bridge_interface call succeeds
\* whatever interfaces are present (identical MAC addresses and boot orders
\* included) and appends exactly one interface entry of type network (source
\* network = the name) or bridge (source bridge = the name) with the model
\* type and only the mtu, mac and boot sub-elements that were given; the
\* entries present before are unchanged.
C24_InterfaceAppended ==
    [][IsAddInterfaceStep =>
          /\ last'.error = "none"
          /\ Len(devices') = Len(devices) + 1
          /\ SubSeq(devices', 1, Len(devices)) = devices
          /\ IsRequestedInterface(devices'[Len(devices')], last'.interface[1])
          /\ domain_el' = domain_el]_vars

\* two interfaces with the same MAC address and boot order, next to a disk
\* on a controller
C24_Witness ==
    /\ last.op = "add_interface"
    /\ \E k \in InterfacesOf(devices) :
          /\ k < Len(devices)
          /\ devices[k].mac = devices[Len(devices)].mac
          /\ devices[k].mac # None
          /\ devices[k].boot = devices[Len(devices)].boot
          /\ devices[k].boot # None
    /\ \E k \in DOMAIN devices : IsScsiController(devices[k])

-----------------------------------------------------------------------------
(* Frame of add_disk *)

IsSuccessfulAddDiskStep == IsAddDiskStep /\ last'.error = "none"

\* the entries a step appended to the devices container
Added == SubSeq(devices', Len(devices) + 1, Len(devices'))

\* what was there before the step is still there, in place
EarlierEntriesKept ==
    /\ Len(devices') >= Len(devices)
    /\ SubSeq(devices', 1, Len(devices)) = devices
    /\ domain_el' = domain_el

\* no virtio-scsi controller entry of devs has a free (target, unit)
NoControllerHasRoom(devs) ==
    \A k \in DOMAIN devs :
        IsScsiController(devs[k]) =>
            FirstFreeSlot(used_scsi_addresses(devs).used,
                          ControllerIndex(devs[k]), 0) = None

\* C25 as stated: a successful add_disk changes the document only by
\* appending the one new disk entry to the devices container; every entry
\* present before is unchanged and no entry other than the new disk is added.
C25_OnlyDiskAppended ==
    [][IsSuccessfulAddDiskStep =>
          /\ EarlierEntriesKept
          /\ Len(Added) = 1
          /\ IsDisk(Added[1])]_vars

\* C25, amended: a successful add_disk changes the document only by
\* appending to the devices container the one new disk entry, preceded, when
\* the bus is scsi and no virtio-scsi controller entry has a free slot, by
\* the one new virtio-scsi controller entry the disk's address names; every
\* entry present before is unchanged and nothing else is added.
C25_DiskAndItsController ==
    [][IsSuccessfulAddDiskStep =>
          /\ EarlierEntriesKept
          /\ IF last'.bus = DISK_BUS_SCSI /\ NoControllerHasRoom(devices)
             THEN /\ Len(Added) = 2
                  /\ IsScsiController(Added[1])
                  /\ IsDisk(Added[2])
                  /\ ControllerIndex(Added[1]) = last'.address[1][1]
             ELSE /\ Len(Added) = 1
                  /\ IsDisk(Added[1])]_vars

\* a scsi disk was attached to a template without a virtio-scsi controller:
\* the controller entry and the disk entry follow the template's entries
C25_Witness ==
    /\ last.op = "add_disk" /\ last.error = "none"
    /\ last.bus = DISK_BUS_SCSI
    /\ ncalls = 1
    /\ Len(devices) = FirstAdded + 1
    /\ IsScsiController(devices[FirstAdded])
    /\ IsDisk(devices[FirstAdded + 1])

-----------------------------------------------------------------------------
(* Properties of _allocate_scsi_address *)

ScsiControllers(devs) == {k \in DOMAIN devs : IsScsiController(devs[k])}

\* the index attribute of a controller entry, 0 when it has none
IndexAttribute(e) == IF e.index = None THEN 0 ELSE int(e.index[1])

\* the addresses the SCSI disks of devs occupy
Occupied(devs) ==
    {AddressTuple(DriveAddress(devs[i])[1]) : i \in AddressedScsiDisks(devs)}

\* (t, u) is free on controller c and every pair before it, targets first,
\* is occupied
SmallestFree(devs, c, t, u) ==
    /\ t \in 0..(NrTargets - 1) /\ u \in 0..(NrUnits - 1)
    /\ <<c, 0, t, u>> \notin Occupied(devs)
    /\ \A u2 \in 0..(u - 1) : <<c, 0, t, u2>> \in Occupied(devs)
    /\ \A t2 \in 0..(t - 1), u2 \in 0..(NrUnits - 1) :
          <<c, 0, t2, u2>> \in Occupied(devs)

IsScsiAllocationStep ==
    /\ IsSuccessfulAddDiskStep
    /\ last'.bus = DISK_BUS_SCSI
    /\ ScsiControllers(devices) # {}

\* C26: when the document has virtio-scsi controller entries, allocation
\* returns, for the first of them in document order that has a free slot,
\* that controller's own index attribute (0 when absent), bus 0 and the
\* smallest (target, unit), targets first, not occupied on it, and creates
\* no controller; a single controller with index 3 and no disks yields
\* 3/0/0/0.
C26_ExistingControllerFirst ==
    [][IsScsiAllocationStep =>
          LET first == Min(ScsiControllers(devices))
              c     == IndexAttribute(devices[first])
              a     == last'.address[1]
          IN  /\ a[1] = c /\ a[2] = 0
              /\ SmallestFree(devices, c, a[3], a[4])
              /\ ScsiControllers(devices') = ScsiControllers(devices)
              /\ Len(devices') = Len(devices) + 1
              /\ (basexml = TplController3 /\ ncalls = 0) =>
                    a = <<3, 0, 0, 0>>]_vars

\* the second disk put on the first of two controllers in use, whose index
\* is 2: after 2/0/0/1 comes 2/0/0/3
C26_Witness ==
    /\ basexml = TplControllersInUse
    /\ last.op = "add_disk" /\ last.error = "none"
    /\ last.address = Some(<<2, 0, 0, 3>>)


\* the controller entries of type scsi, of any model
AnyScsiControllers(devs) ==
    {k \in DOMAIN devs : devs[k].tag = "controller" /\ devs[k].type = "scsi"}

IndexesDistinct(devs, ctrl) ==
    \A i, j \in ctrl :
        i # j => IndexAttribute(devs[i]) # IndexAttribute(devs[j])

\* the step appended a virtio-scsi controller entry
ControllerCreated ==
    Cardinality(ScsiControllers(devices')) > Cardinality(ScsiControllers(devices))

\* the new controller entry comes only when no controller has room and
\* fewer than 32 exist, and the disk is put at its (index, 0, 0, 0)
CreatedWhenNeeded ==
    IsAddDiskStep /\ ControllerCreated =>
        LET new == devices'[Len(devices) + 1]
        IN  /\ NoControllerHasRoom(devices)
            /\ Cardinality(ScsiControllers(devices)) < MaxControllers
            /\ IsScsiController(new)
            /\ last'.address = Some(<<IndexAttribute(new), 0, 0, 0>>)

\* C27: a new SCSI controller entry is created only when no existing
\* controller has a free slot and fewer than 32 exist; it gets the next
\* index, one no existing controller has, and the allocation returns (new
\* controller, 0, 0, 0); hence there are never more than 32 SCSI controller
\* entries and their indexes stay pairwise distinct.
C27_NewControllerIndex ==
    [][/\ CreatedWhenNeeded
       /\ IsAddDiskStep /\ ControllerCreated =>
             \A k \in AnyScsiControllers(devices) :
                 IndexAttribute(devices[k])
                     # IndexAttribute(devices'[Len(devices) + 1])
       /\ Cardinality(AnyScsiControllers(devices')) <= MaxControllers
       /\ IndexesDistinct(devices', AnyScsiControllers(devices'))]_vars

\* the same with only the virtio-scsi entries counted as controllers
C27_AmongVirtioScsi ==
    [][/\ CreatedWhenNeeded
       /\ IsAddDiskStep /\ ControllerCreated =>
             \A k \in ScsiControllers(devices) :
                 IndexAttribute(devices[k])
                     # IndexAttribute(devices'[Len(devices) + 1])
       /\ Cardinality(ScsiControllers(devices')) <= MaxControllers
       /\ IndexesDistinct(devices', ScsiControllers(devices'))]_vars

\* an lsilogic controller 0 of the template next to a new virtio-scsi
\* controller 0
C27_DuplicateIndex ==
    /\ basexml = TplForeignController
    /\ \E i, j \in AnyScsiControllers(devices) :
          /\ i # j
          /\ devices[i].index = Some(<<"0">>)
          /\ devices[j].index = Some(<<"0">>)

-----------------------------------------------------------------------------
(* Entries attached to the devices container *)

HasAttribute(el, name) == \E p \in el.attrib : p[1] = name

HasChild(el, tag) == \E k \in DOMAIN el.children : el.children[k].tag = tag

\* a disk entry has its type, source, target dev and bus and driver cache,
\* and a drive address when it is on the scsi bus
DiskFullyFormed(e) ==
    /\ e.type \in {"volume", "network"}
    /\ DOMAIN e.source # {}
    /\ e.target # None
    /\ e.target[1].dev # None
    /\ e.target[1].bus \in {DISK_BUS_VIRTIO, DISK_BUS_SCSI}
    /\ e.driver.cache # ""
    /\ e.target[1].bus = DISK_BUS_SCSI => e.address # None

\* an interface entry has its type, its model and its source
InterfaceFullyFormed(e) ==
    /\ HasAttribute(e, "type")
    /\ HasChild(e, "model")
    /\ HasChild(e, "source")

DisksFullyFormed ==
    \A k \in DOMAIN devices :
        devices[k].tag = "disk" => DiskFullyFormed(devices[k])

\* C28: in every state of the document, the states inside add_disk,
\* add_network_interface and add_bridge_interface included, each disk or
\* interface entry attached to the devices container has all its required
\* sub-elements and attributes (disk: type, source, target dev and bus,
\* driver cache, an address on the scsi bus; interface: type, model, source).
C28_FullyFormedWhenAttached ==
    /\ DisksFullyFormed
    /\ \A k \in DOMAIN devices :
          devices[k].tag = "interface" => InterfaceFullyFormed(devices[k])

\* the element tree that stands for an interface entry of the builder
InterfaceTree(el) ==
    LET base  == WithChild(Element("interface", {}), "model", "type",
                           el.model.type)
        mtu   == IF el.mtu = None THEN base
                 ELSE WithChild(base, "mtu", "size", el.mtu[1])
        mac   == IF el.mac = None THEN mtu
                 ELSE WithChild(mtu, "mac", "address", el.mac[1])
        boot  == IF el.boot = None THEN mac
                 ELSE WithChild(mac, "boot", "order", el.boot[1])
        typed == [boot EXCEPT !.attrib = {<<"type", el.type>>}]
    IN  WithChild(typed, "source", el.type,
                  IF el.type = "bridge" THEN el.source.bridge
                  ELSE el.source.network)

\* what does hold: disks are attached fully formed, and between calls every
\* interface entry is the complete entry its call asked for
C28_FormedBetweenCalls ==
    /\ DisksFullyFormed
    /\ building = None =>
          \A k \in DOMAIN devices :
              devices[k].tag = "interface" => InterfaceFullyFormed(devices[k])
    /\ building = None /\ last.op = "add_interface" =>
          LET i == last.interface[1]
          IN  devices[Len(devices)] =
                  InterfaceTree(InterfaceElement(i.kind, i.source,
                                    i.model_type, i.mac_address,
                                    i.boot_order, i.mtu))

\* an interface entry sits in the devices container without type, model or
\* source
C28_EmptyInterfaceAttached ==
    /\ building # None
    /\ building[1].op = "add_interface"
    /\ devices[Len(devices)] = Element("interface", {})

-----------------------------------------------------------------------------
(* Failing add_disk calls *)

AddDiskErrors ==
    {"UnsupportedBusError", "UnsupportedVolumeTypeError",
     "RuntimeError: Volume is missing path",
     "RuntimeError: All possible disk devices are already used",
     "RuntimeError: SCSI disk is missing an address",
     "RuntimeError: All available SCSI controllers are full"}

IsFailedAddDiskStep == IsAddDiskStep /\ last'.error # "none"

\* C29: every failing add_disk call, whichever error it raises, leaves the
\* document exactly as it was before the call: no disk entry and no
\* controller entry has been added, so a later add_disk, which reads nothing
\* but the document, behaves as if the failed call had not happened.
C29_FailureLeavesDocument ==
    [][IsFailedAddDiskStep =>
          /\ last'.error \in AddDiskErrors
          /\ devices' = devices
          /\ domain_el' = domain_el]_vars

\* a scsi add_disk failed on a template disk without an address, after
\* which the document is the constructed one
C29_Witness ==
    /\ last.op = "add_disk"
    /\ last.bus = DISK_BUS_SCSI
    /\ last.error = "RuntimeError: SCSI disk is missing an address"
    /\ basexml = TplNoAddress
    /\ Len(devices) = FirstAdded - 1

\* the last free device name was taken and the next call on the bus failed
C29_NamesUsedUp ==
    /\ last.op = "add_disk"
    /\ last.error = "RuntimeError: All possible disk devices are already used"
    /\ basexml = TplScsiAlmostFull

-----------------------------------------------------------------------------
(* Properties of cmd_create *)

\* the option of a spec, or what its preset gives
SpecOption(spec, given, key) ==
    IF given # None THEN given[1] ELSE DiskPresets[spec.preset][key]

\* the i-th Volume is named <name>-disk<i> and attached with the bus, cache
\* and boot order of the i-th spec
OwnNameAndOptions(j) ==
    LET spec == create.specs[j]
        v    == create.volumes[j]
        a    == create.add_disks[j]
    IN  /\ v.name = create.name \o <<"-", "d", "i", "s", "k">> \o str(j - 1)
        /\ v.pool_name = SpecOption(spec, spec.kwargs.pool, "pool")
        /\ a.volume = v.name
        /\ a.bus = SpecOption(spec, spec.kwargs.bus, "bus")
        /\ a.cache = SpecOption(spec, spec.kwargs.cache, "cache")
        /\ a.boot_order = (IF spec.kwargs.boot_order = None THEN None
                           ELSE Some(int(spec.kwargs.boot_order[1])))

SizeOfSpec(j) == human_size_units_to_bytes(create.specs[j].size).value

\* C30: for every list of --disk specs, the Volume created for the i-th
\* disk is named <name>-disk<i>, is created with create_size_bytes equal to
\* the size parsed from that same i-th spec, and its add_disk uses that
\* disk's own bus, cache and boot order.
C30_OwnSize ==
    create.pc \in {"volumes", "done"} =>
        \A j \in DOMAIN create.volumes :
            /\ OwnNameAndOptions(j)
            /\ create.volumes[j].create_size_bytes = SizeOfSpec(j)

\* what the loops do: names and options are each disk's own, the size of
\* every volume is the size of the last spec
C30_LastSize ==
    create.pc \in {"volumes", "done"} =>
        \A j \in DOMAIN create.volumes :
            /\ OwnNameAndOptions(j)
            /\ create.volumes[j].create_size_bytes
                  = SizeOfSpec(Len(create.specs))

\* two disks of 1GiB and 2048 bytes: both volumes are created with 2048
C30_FirstDiskWrongSize ==
    /\ create.pc = "done"
    /\ Len(create.specs) = 2
    /\ create.specs[1].size = <<"1", "G", "i", "B">>
    /\ create.volumes[1].create_size_bytes = Some(<<"2", "0", "4", "8">>)

=============================================================================
